---- MODULE Spec2Model ----
(***************************************************************************)
(* Safety-aware route computation of leading-light (src/js/routes.js,      *)
(* with the danger-zone model and scorer of src/www/js/routes.js).         *)
(*                                                                         *)
(* Coordinates are integers in units of 1e-4 degree (about 11 m).          *)
(* Distances are integer metres, bearings integer degrees quantised to the *)
(* eight compass directions, scores fixed-point in 1e-4.                    *)
(***************************************************************************)
EXTENDS Integers, Sequences, FiniteSets, TLC

(***************************************************************************)
(* Arithmetic helpers                                                      *)
(***************************************************************************)
Abs(x) == IF x < 0 THEN -x ELSE x

Max2(a, b) == IF a > b THEN a ELSE b

Min2(a, b) == IF a < b THEN a ELSE b

\* a / b rounded to the nearest integer, halves up (Math.round of a quotient), b > 0
RoundDiv(a, b) == (2 * a + b) \div (2 * b)

RECURSIVE IsqrtIn(_, _, _)
IsqrtIn(n, lo, hi) ==
  IF lo >= hi THEN lo
  ELSE LET mid == (lo + hi + 1) \div 2
       IN IF mid * mid <= n THEN IsqrtIn(n, mid, hi) ELSE IsqrtIn(n, lo, mid - 1)

\* floor(sqrt(n)) for 0 <= n < 2^31
Isqrt(n) == IsqrtIn(n, 0, 46340)

RECURSIVE SeqSum(_)
SeqSum(s) == IF s = <<>> THEN 0 ELSE Head(s) + SeqSum(Tail(s))

SeqMin(s) == CHOOSE x \in {s[i] : i \in 1..Len(s)} : \A j \in 1..Len(s) : x <= s[j]

SeqMax(s) == CHOOSE x \in {s[i] : i \in 1..Len(s)} : \A j \in 1..Len(s) : x >= s[j]

Take(s, n) == SubSeq(s, 1, Min2(n, Len(s)))

\* Array.prototype.sort with a numeric comparator: stable, ascending by key.
\* keys[i] is the sort key of items[i].
RECURSIVE InsertByKey(_, _, _, _)
InsertByKey(sorted, skeys, item, key) ==
  IF sorted = <<>> THEN <<item>>
  ELSE IF key < Head(skeys) THEN <<item>> \o sorted
  ELSE <<Head(sorted)>> \o InsertByKey(Tail(sorted), Tail(skeys), item, key)

RECURSIVE InsertKey(_, _)
InsertKey(skeys, key) ==
  IF skeys = <<>> THEN <<key>>
  ELSE IF key < Head(skeys) THEN <<key>> \o skeys
  ELSE <<Head(skeys)>> \o InsertKey(Tail(skeys), key)

RECURSIVE StableSortFrom(_, _, _, _, _)
StableSortFrom(items, keys, i, sorted, skeys) ==
  IF i > Len(items) THEN sorted
  ELSE StableSortFrom(items, keys, i + 1,
                      InsertByKey(sorted, skeys, items[i], keys[i]),
                      InsertKey(skeys, keys[i]))

StableSortAsc(items, keys) == StableSortFrom(items, keys, 1, <<>>, <<>>)

(***************************************************************************)
(* Geometry utilities                                                      *)
(***************************************************************************)
Pt(lat, lng) == [lat |-> lat, lng |-> lng]

\* cos(latitude) in 1/1000, by whole degree of latitude (lat in 1e-4 degree)
Cos1000(lat) ==
  LET deg == Abs(lat) \div 10000
  IN IF deg < 20 THEN 1000
     ELSE IF deg < 43 THEN 740      \* cos(42.28 deg)
     ELSE IF deg < 50 THEN 731      \* cos(43 deg)
     ELSE 500                       \* cos(60 deg)

\* sqrt(dLat^2 + (dLng*cos(lat1))^2) in 1e-6 degree
PlanarDegE6(lat1, lng1, lat2, lng2) ==
  LET dLat == (lat2 - lat1) * 100
      dLng == ((lng2 - lng1) * Cos1000(lat1)) \div 10
  IN Isqrt(dLat * dLat + dLng * dLng)

\* _quickDistMeters: R * sqrt(dLat^2 + dLng^2), R*pi/180 = 111195 m per degree
_quickDistMeters(lat1, lng1, lat2, lng2) ==
  (PlanarDegE6(lat1, lng1, lat2, lng2) * 1112) \div 10000

\* _bearingDeg: forward azimuth atan2(y, x), y = dLng*cos(lat2), x = dLat,
\* to the nearest of the eight compass directions; atan2(0, 0) = 0.
\* tan(22.5 deg) = 0.4142
_bearingDeg(lat1, lng1, lat2, lng2) ==
  LET y == (lng2 - lng1) * Cos1000(lat2)
      x == (lat2 - lat1) * 1000
      ay == Abs(y)
      ax == Abs(x)
  IN IF x = 0 /\ y = 0 THEN 0
     ELSE IF 10000 * ay <= 4142 * ax THEN (IF x > 0 THEN 0 ELSE 180)
     ELSE IF 10000 * ax < 4142 * ay THEN (IF y > 0 THEN 90 ELSE 270)
     ELSE IF x > 0 THEN (IF y > 0 THEN 45 ELSE 315)
     ELSE (IF y > 0 THEN 135 ELSE 225)

\* cos and sin of a compass bearing, in 1/1000
CosB(b) ==
  CASE b = 0 -> 1000 [] b = 45 -> 707 [] b = 90 -> 0 [] b = 135 -> -707
    [] b = 180 -> -1000 [] b = 225 -> -707 [] b = 270 -> 0 [] b = 315 -> 707

SinB(b) == CosB((b + 270) % 360)

\* _offsetPoint: destination point at distMeters along bearingDeg
_offsetPoint(lat, lng, bearingDeg, distMeters) ==
  Pt(lat + RoundDiv(distMeters * CosB(bearingDeg), 11120),
     lng + RoundDiv(distMeters * SinB(bearingDeg) * 100, 1112 * Cos1000(lat)))

(***************************************************************************)
(* Danger zone model (src/www/js/routes.js)                                *)
(***************************************************************************)
Zone(lat, lng, radius, severity) ==
  [lat |-> lat, lng |-> lng, radius |-> radius, severity |-> severity]

Bounds(south, west, north, east) ==
  [south |-> south, west |-> west, north |-> north, east |-> east]

\* L.latLngBounds.contains
BoundsContains(b, p) ==
  p.lat >= b.south /\ p.lat <= b.north /\ p.lng >= b.west /\ p.lng <= b.east

\* grid cell size: step = 0.01 degree
CellStep == 100

\* generateHotspotsForCell: the hotspots the seeded generator yields for the
\* cell whose south-west corner is (cellLat, cellLng); 0 to 2 per cell, each
\* with lat, lng, radius, severity and recentCount.  The cells of the modelled
\* area are tabulated.
generateHotspotsForCell(cellLat, cellLng) ==
  IF cellLat = 422800 /\ cellLng = -837500
  THEN << [lat |-> 422800, lng |-> -837440, radius |-> 100, severity |-> 5, recentCount |-> 6],
          [lat |-> 422802, lng |-> -837441, radius |-> 150, severity |-> 5, recentCount |-> 3] >>
  ELSE IF cellLat = 422600 /\ cellLng = -837300
  THEN << [lat |-> 422650, lng |-> -837250, radius |-> 60, severity |-> 2, recentCount |-> 1] >>
  ELSE <<>>

RECURSIVE CellRow(_, _, _)
CellRow(cellLat, lng, east) ==
  IF lng > east THEN <<>>
  ELSE generateHotspotsForCell(cellLat, lng) \o CellRow(cellLat, lng + CellStep, east)

RECURSIVE CellRows(_, _, _, _)
CellRows(lat, north, west0, east) ==
  IF lat > north THEN <<>>
  ELSE CellRow(lat, west0, east) \o CellRows(lat + CellStep, north, west0, east)

\* getHotspotsForBounds: every hotspot of every cell the bounds, widened by
\* buf = 0.005 degree, touch
getHotspotsForBounds(b) ==
  LET south == b.south - 50
      west  == b.west - 50
      north == b.north + 50
      east  == b.east + 50
  IN CellRows((south \div CellStep) * CellStep, north, (west \div CellStep) * CellStep, east)

\* getDangerZones: real crime markers inside the bounds (radius 100,
\* severity 3), then the simulated hotspots (lat, lng, radius, severity)
getDangerZones(markers, b) ==
  LET real == SelectSeq(markers, LAMBDA m : BoundsContains(b, m))
      hs   == getHotspotsForBounds(b)
  IN [i \in 1..Len(real) |-> Zone(real[i].lat, real[i].lng, 100, 3)]
     \o [i \in 1..Len(hs) |-> Zone(hs[i].lat, hs[i].lng, hs[i].radius, hs[i].severity)]

\* Number.toFixed(3) of a coordinate (1e-4 degree in, 1e-3 degree out)
ToFixed3(x) == IF x >= 0 THEN RoundDiv(x, 10) ELSE 0 - RoundDiv(0 - x, 10)

\* cellKey = `${lat.toFixed(3)}_${lng.toFixed(3)}`
CellKey(cellLat, cellLng) == << ToFixed3(cellLat), ToFixed3(cellLng) >>

\* the cells (south-west corners) the two loops of getHotspotsForBounds visit
CellsOf(b) ==
  LET south0 == ((b.south - 50) \div CellStep) * CellStep
      west0  == ((b.west - 50) \div CellStep) * CellStep
  IN { << south0 + i * CellStep, west0 + j * CellStep >> :
         i \in 0..((b.north + 50 - south0) \div CellStep),
         j \in 0..((b.east + 50 - west0) \div CellStep) }

\* mutant: a cached cell yields no hotspots
CachedHotspotsLost(cache, cellLat, cellLng) ==
  IF CellKey(cellLat, cellLng) \in DOMAIN cache
  THEN <<>>
  ELSE generateHotspotsForCell(cellLat, cellLng)

\* generateHotspotsForCell with its cache: a cached cell is returned as
\* cached, any other cell is generated
CachedHotspots(cache, cellLat, cellLng) ==
  IF CellKey(cellLat, cellLng) \in DOMAIN cache
  THEN cache[CellKey(cellLat, cellLng)]
  ELSE generateHotspotsForCell(cellLat, cellLng)

RECURSIVE CachedRow(_, _, _, _)
CachedRow(cache, cellLat, lng, east) ==
  IF lng > east THEN <<>>
  ELSE CachedHotspots(cache, cellLat, lng) \o CachedRow(cache, cellLat, lng + CellStep, east)

RECURSIVE CachedRows(_, _, _, _, _)
CachedRows(cache, lat, north, west0, east) ==
  IF lat > north THEN <<>>
  ELSE CachedRow(cache, lat, west0, east) \o CachedRows(cache, lat + CellStep, north, west0, east)

\* getDangerZones as it runs against the cache: the real crime markers inside
\* the bounds, then the hotspots of the visited cells, cached or generated
getDangerZonesCached(cache, markers, b) ==
  LET real == SelectSeq(markers, LAMBDA m : BoundsContains(b, m))
      hs   == CachedRows(cache, ((b.south - 50) \div CellStep) * CellStep, b.north + 50,
                         ((b.west - 50) \div CellStep) * CellStep, b.east + 50)
  IN [i \in 1..Len(real) |-> Zone(real[i].lat, real[i].lng, 100, 3)]
     \o [i \in 1..Len(hs) |-> Zone(hs[i].lat, hs[i].lng, hs[i].radius, hs[i].severity)]

\* _hotspotCache after generateHotspotsForCell has run for the cells
FillCache(cache, cells) ==
  LET keys == { CellKey(c[1], c[2]) : c \in cells }
  IN IF keys \subseteq DOMAIN cache THEN cache
     ELSE [k \in DOMAIN cache \cup keys |->
             IF k \in DOMAIN cache THEN cache[k]
             ELSE LET c == CHOOSE c \in cells : CellKey(c[1], c[2]) = k
                  IN generateHotspotsForCell(c[1], c[2])]

\* quickDist: planar distance in degrees (here 1e-6 degree)
quickDist(lat1, lng1, lat2, lng2) == PlanarDegE6(lat1, lng1, lat2, lng2)

\* mutant: no test of d against the doubled radius, proximity not capped
ZoneDangerUnguarded(p, z) ==
  LET d   == quickDist(p.lat, p.lng, z.lat, z.lng)
      dr2 == (z.radius * 2 * 1000000) \div 111320
      proximity == 1000 - (d * 1000) \div dr2
  IN proximity * z.severity * 4

\* The danger one zone adds at one sample, in 1e-4:
\* proximity * severity * incidents * 0.4 when d < 2 * dangerRadius.
\* incidents = z.recentCount || 1.
ZoneDanger(p, z) ==
  LET d   == quickDist(p.lat, p.lng, z.lat, z.lng)
      dr2 == (z.radius * 2 * 1000000) \div 111320
      proximity == 1000 - (Min2(d, dr2) * 1000) \div dr2
      incidents == IF "recentCount" \in DOMAIN z /\ z.recentCount # 0
                   THEN z.recentCount ELSE 1
  IN IF d < dr2 THEN proximity * z.severity * incidents * 4 ELSE 0

\* sample indices 0, step, 2*step, ... below len
SampleIdx(len, step) == [k \in 1..((len + step - 1) \div step) |-> (k - 1) * step]

\* the bounding box of a polyline padded by pad (1e-4 degree)
RouteBounds(coords, pad) ==
  LET lats == [i \in 1..Len(coords) |-> coords[i].lat]
      lngs == [i \in 1..Len(coords) |-> coords[i].lng]
  IN Bounds(SeqMin(lats) - pad, SeqMin(lngs) - pad, SeqMax(lats) + pad, SeqMax(lngs) + pad)

\* dangerScore (1e-4): the sum over the sampled points and the zones
DangerScore(zones, coords) ==
  LET step == Max2(1, Len(coords) \div 60)
      idxs == SampleIdx(Len(coords), step)
      perSample == [k \in 1..Len(idxs) |->
                      SeqSum([j \in 1..Len(zones) |-> ZoneDanger(coords[idxs[k] + 1], zones[j])])]
  IN SeqSum(perSample)

\* Math.max(15, Math.min(98, Math.round(90 - dangerScore)))
SafetyFromDanger(dangerScore) == Max2(15, Min2(98, (905000 - dangerScore) \div 10000))

\* mutant: the score is not clamped
scoreRouteSafetyUnclamped(markers, coords) ==
  IF Len(coords) = 0 THEN 85
  ELSE (905000 - DangerScore(getDangerZones(markers, RouteBounds(coords, 50)), coords)) \div 10000

\* scoreRouteSafety
scoreRouteSafety(markers, coords) ==
  IF Len(coords) = 0 THEN 85
  ELSE SafetyFromDanger(DangerScore(getDangerZones(markers, RouteBounds(coords, 50)), coords))

(***************************************************************************)
(* Danger intersection detector (src/js/routes.js)                         *)
(***************************************************************************)
\* mutant: the last zone in reach is named
LastZoneNear(p, zones) ==
  LET near == {j \in 1..Len(zones) :
                 _quickDistMeters(p.lat, p.lng, zones[j].lat, zones[j].lng)
                   < zones[j].radius + 250}
  IN IF near = {} THEN 0 ELSE CHOOSE j \in near : \A k \in near : j >= k

\* index (1-based) of the first zone within radius + 250 m of p, 0 if none
FirstZoneNear(p, zones) ==
  LET near == {j \in 1..Len(zones) :
                 _quickDistMeters(p.lat, p.lng, zones[j].lat, zones[j].lng)
                   < zones[j].radius + 250}
  IN IF near = {} THEN 0 ELSE CHOOSE j \in near : \A k \in near : j <= k

\* findDangerIntersections: hits {lat, lng, dzLat, dzLng, severity, idx}, idx 0-based
findDangerIntersections(routeCoords, dangerZones) ==
  LET step == Max2(1, Len(routeCoords) \div 250)
      idxs == SampleIdx(Len(routeCoords), step)
      hitIdx == SelectSeq(idxs, LAMBDA i : FirstZoneNear(routeCoords[i + 1], dangerZones) # 0)
  IN [k \in 1..Len(hitIdx) |->
        LET p  == routeCoords[hitIdx[k] + 1]
            dz == dangerZones[FirstZoneNear(p, dangerZones)]
        IN [lat |-> p.lat, lng |-> p.lng, dzLat |-> dz.lat, dzLng |-> dz.lng,
            severity |-> dz.severity, idx |-> hitIdx[k]]]

(***************************************************************************)
(* Detour waypoint builder (src/js/routes.js)                              *)
(***************************************************************************)
\* mutant: every hit begins a cluster of its own
ClusterHitsSingle(hits) == [i \in 1..Len(hits) |-> <<hits[i]>>]

\* Cluster hits that are close together along the route index: a hit joins
\* the last cluster when its idx is less than 20 after that cluster's last hit
RECURSIVE ClusterFrom(_, _, _)
ClusterFrom(hits, i, clusters) ==
  IF i > Len(hits) THEN clusters
  ELSE LET n    == Len(clusters)
           last == clusters[n]
       IN IF hits[i].idx - last[Len(last)].idx < 20
          THEN ClusterFrom(hits, i + 1, [clusters EXCEPT ![n] = Append(last, hits[i])])
          ELSE ClusterFrom(hits, i + 1, Append(clusters, <<hits[i]>>))

ClusterHits(hits) == ClusterFrom(hits, 2, << <<hits[1]>> >>)

\* entry / middle / exit indices of a cluster (0-based), as computed
ClusterIdx(cl, totalPts) ==
  LET firstIdx == cl[1].idx
      lastIdx  == cl[Len(cl)].idx
      midIdx   == (firstIdx + lastIdx + 1) \div 2
      margin   == Max2(8, RoundDiv((lastIdx - firstIdx) * 4, 10))
  IN [entryIdx   |-> Max2(3, firstIdx - margin),
      exitIdx    |-> Min2(totalPts - 4, lastIdx + margin),
      safeMiddle |-> Min2(Max2(midIdx, 3), totalPts - 4)]

\* routeCoords[i] is undefined outside 0..totalPts-1; reading its [0] throws
IdxDefined(i, totalPts) == i >= 0 /\ i <= totalPts - 1

ClusterThrows(cl, totalPts) ==
  LET ix == ClusterIdx(cl, totalPts)
  IN ~ (IdxDefined(ix.entryIdx, totalPts) /\ IdxDefined(ix.safeMiddle, totalPts)
        /\ IdxDefined(ix.exitIdx, totalPts))

\* localBearing: bearing across a window of +-5 points around idx
localBearing(routeCoords, idx) ==
  LET totalPts == Len(routeCoords)
      i0 == Max2(0, idx - 5)
      i1 == Min2(totalPts - 1, idx + 5)
  IN _bearingDeg(routeCoords[i0 + 1].lat, routeCoords[i0 + 1].lng,
                 routeCoords[i1 + 1].lat, routeCoords[i1 + 1].lng)

\* mutant: the perpendicular on the zone's side
SafeSideToward(roadBearing, toBearing) ==
  LET perpLeft  == (roadBearing + 270) % 360
      perpRight == (roadBearing + 90) % 360
      diff == ((toBearing - perpRight + 540) % 360) - 180
  IN IF Abs(diff) < 90 THEN perpRight ELSE perpLeft

\* safeSideBearing once the bearing to the zone centre is known: the signed
\* angle from perpRight to the zone bearing decides the side
SafeSide(roadBearing, toBearing) ==
  LET perpLeft  == (roadBearing + 270) % 360
      perpRight == (roadBearing + 90) % 360
      diff == ((toBearing - perpRight + 540) % 360) - 180
  IN IF Abs(diff) < 90 THEN perpLeft ELSE perpRight

\* safeSideBearing: the perpendicular of the road bearing away from the zone
safeSideBearing(ptLat, ptLng, roadBearing, dzLat, dzLng) ==
  SafeSide(roadBearing, _bearingDeg(ptLat, ptLng, dzLat, dzLng))

\* one waypoint {lat, lng, _order}: the route point at idx moved offM metres
\* to the safe side
DetourPoint(routeCoords, idx, dzLat, dzLng, offM) ==
  LET p   == routeCoords[idx + 1]
      brg == localBearing(routeCoords, idx)
      safeBrg == safeSideBearing(p.lat, p.lng, brg, dzLat, dzLng)
      off == _offsetPoint(p.lat, p.lng, safeBrg, offM)
  IN [lat |-> off.lat, lng |-> off.lng, _order |-> idx]

\* the ENTRY, BYPASS and EXIT waypoints of one cluster
ClusterWaypoints(routeCoords, cl) ==
  LET ix == ClusterIdx(cl, Len(routeCoords))
      dzLat == RoundDiv(SeqSum([k \in 1..Len(cl) |-> cl[k].dzLat]), Len(cl))
      dzLng == RoundDiv(SeqSum([k \in 1..Len(cl) |-> cl[k].dzLng]), Len(cl))
      baseOffsetM  == 400 + Len(cl) * 100
      bypassExtraM == 150
  IN << DetourPoint(routeCoords, ix.entryIdx, dzLat, dzLng, baseOffsetM),
        DetourPoint(routeCoords, ix.safeMiddle, dzLat, dzLng, baseOffsetM + bypassExtraM),
        DetourPoint(routeCoords, ix.exitIdx, dzLat, dzLng, baseOffsetM) >>

\* the side of the road a waypoint is moved to: "left" for the bearing
\* roadBearing + 270, "right" for roadBearing + 90
WaypointSide(routeCoords, idx, dzLat, dzLng) ==
  LET p   == routeCoords[idx + 1]
      brg == localBearing(routeCoords, idx)
  IN IF safeSideBearing(p.lat, p.lng, brg, dzLat, dzLng) = (brg + 270) % 360
     THEN "left" ELSE "right"

\* the sides of the ENTRY, BYPASS and EXIT waypoints of one cluster
ClusterSides(routeCoords, cl) ==
  LET ix == ClusterIdx(cl, Len(routeCoords))
      dzLat == RoundDiv(SeqSum([k \in 1..Len(cl) |-> cl[k].dzLat]), Len(cl))
      dzLng == RoundDiv(SeqSum([k \in 1..Len(cl) |-> cl[k].dzLng]), Len(cl))
  IN << WaypointSide(routeCoords, ix.entryIdx, dzLat, dzLng),
        WaypointSide(routeCoords, ix.safeMiddle, dzLat, dzLng),
        WaypointSide(routeCoords, ix.exitIdx, dzLat, dzLng) >>

RECURSIVE FlattenSeq(_)
FlattenSeq(ss) == IF ss = <<>> THEN <<>> ELSE Head(ss) \o FlattenSeq(Tail(ss))

\* buildDetourWaypoints throws a TypeError when a cluster's entry, middle or
\* exit index is not an index of routeCoords
BuildThrows(routeCoords, hits) ==
  /\ Len(hits) > 0
  /\ LET clusters == ClusterHits(hits)
     IN \E c \in 1..Len(clusters) : ClusterThrows(clusters[c], Len(routeCoords))

\* buildDetourWaypoints (when it does not throw): three waypoints per
\* cluster, sorted by _order, capped at 9
buildDetourWaypoints(routeCoords, hits) ==
  IF Len(hits) = 0 THEN <<>>
  ELSE LET clusters  == ClusterHits(hits)
           waypoints == FlattenSeq([c \in 1..Len(clusters) |->
                                      ClusterWaypoints(routeCoords, clusters[c])])
           sorted    == StableSortAsc(waypoints,
                                      [k \in 1..Len(waypoints) |-> waypoints[k]._order])
       IN Take(sorted, 9)

(***************************************************************************)
(* The routing provider's world: two origin/destination pairs and the      *)
(* routes the provider can return for them                                  *)
(***************************************************************************)
Pairs == {"A", "B"}

Origin(p) == IF p = "A" THEN Pt(422900, -837440) ELSE Pt(422730, -837300)

Destination(p) == IF p = "A" THEN Pt(422700, -837440) ELSE Pt(422715, -837300)

\* n points from (lat0, lng0) in steps of (dLat, dLng)
Line(lat0, lng0, dLat, dLng, n) ==
  [i \in 1..n |-> Pt(lat0 + (i - 1) * dLat, lng0 + (i - 1) * dLng)]

RouteIds == {"A1", "A2", "A3", "A4", "A5", "B1", "B2", "B3", "B4"}

\* geometry.coordinates of a provider route, as [lat, lng] points
Coords(r) ==
  CASE r = "A1" -> Line(422900, -837440, -25, 0, 9)              \* straight through the hotspots
    [] r = "A2" -> << Pt(422900, -837440), Pt(422875, -837410), Pt(422850, -837380),
                      Pt(422800, -837380), Pt(422750, -837380), Pt(422725, -837410),
                      Pt(422700, -837440) >>                     \* detour to the east
    [] r = "A3" -> <<Pt(422900, -837440)>> \o Line(422830, -837440, -2, 0, 31)
                   \o <<Pt(422700, -837440)>>                    \* dense polyline through the hotspots
    [] r = "A4" -> << Pt(422900, -837440), Pt(422875, -837470), Pt(422850, -837500),
                      Pt(422800, -837500), Pt(422750, -837500), Pt(422725, -837470),
                      Pt(422700, -837440) >>                     \* detour to the west
    [] r = "A5" -> << Pt(422900, -837440), Pt(422825, -837440), Pt(422775, -837440),
                      Pt(422700, -837440) >>                     \* four points, through the hotspots
    [] r = "B1" -> << Pt(422730, -837300), Pt(422715, -837300) >>  \* one straight segment
    [] r = "B2" -> << Pt(422730, -837300), Pt(422728, -837310), Pt(422722, -837315),
                      Pt(422717, -837310), Pt(422715, -837300) >>
    [] r = "B3" -> << Pt(422730, -837300), Pt(422728, -837290), Pt(422722, -837285),
                      Pt(422717, -837290), Pt(422715, -837300) >>  \* B2 mirrored, same length bucket
    [] r = "B4" -> << Pt(422730, -837300), Pt(422729, -837294), Pt(422726, -837288),
                      Pt(422722, -837285), Pt(422719, -837288), Pt(422716, -837294),
                      Pt(422715, -837300) >>                     \* seven points, to the east

\* route.distance in metres
Distance(r) ==
  CASE r = "A1" -> 2224 [] r = "A2" -> 2726 [] r = "A3" -> 2260 [] r = "A4" -> 2724
    [] r = "A5" -> 2160 [] r = "B1" -> 167 [] r = "B2" -> 230 [] r = "B3" -> 240 [] r = "B4" -> 236

\* route.duration in seconds
Duration(r) ==
  CASE r = "A1" -> 1600 [] r = "A2" -> 1960 [] r = "A3" -> 2400 [] r = "A4" -> 1600
    [] r = "A5" -> 1590 [] r = "B1" -> 120 [] r = "B2" -> 170 [] r = "B3" -> 175 [] r = "B4" -> 172

PairOf(r) == IF r \in {"B1", "B2", "B3", "B4"} THEN "B" ELSE "A"

\* what the provider may answer to a pass-1 request and to a refinement request
DirectResponses(p) ==
  IF p = "A" THEN { <<"A1">>, <<"A3", "A1">> } ELSE { <<"B1">>, <<"B2", "B3">> }

RefineResponses(p) ==
  IF p = "A" THEN { <<"A2", "A4">>, <<"A5">>, <<"A3", "A1", "A4">> }
  ELSE { <<"B4">>, <<"B1">> }

\* the crime markers the feeds may have put on the map: none, one beside
\* pair B's routes, one away from every route (the feed of another area)
MarkerSets == { <<>>, <<Pt(422722, -837302)>>, <<Pt(423500, -836500)>> }

\* what the feed may answer next: the data of the user's area first, the
\* data of another area once the map has been moved away
FeedAnswers(markers) ==
  IF markers = <<>> THEN { <<Pt(422722, -837302)>> }
  ELSE IF markers = <<Pt(422722, -837302)>> THEN { <<Pt(423500, -836500)>> }
  ELSE {}

(***************************************************************************)
(* Feed normalisation (src/www/js/routes.js): thinByDistance and the        *)
(* street-level loader                                                      *)
(***************************************************************************)
\* a coordinate field of a feed record: numeric text ("42.2722"), numeric
\* text followed by other characters ("42.2722N"), other text ("n/a"), or
\* absent (no location, no latitude)
Field(kind, v) == [kind |-> kind, v |-> v]

\* parseFloat: the leading number of the text, NaN when there is none
parseFloat(raw) ==
  IF raw.kind \in {"num", "prefixed"} THEN [nan |-> FALSE, v |-> raw.v]
  ELSE [nan |-> TRUE, v |-> 0]

isNaN(x) == x.nan

\* d < minDist for d = sqrt(dlat^2 + dlng^2) * 111320, coordinates in 1e-4
\* degree: 11.132 m per unit, both sides squared and divided by 16
TooClose(a, b, minDist) ==
  LET dlat == a.lat - b.lat
      dlng == a.lng - b.lng
  IN (dlat * dlat + dlng * dlng) * 2783 * 2783 < (minDist * 250) * (minDist * 250)

\* the position a record's accessors latFn, lngFn give
FeedPos(item) == Pt(parseFloat(item.latitude).v, parseFloat(item.longitude).v)

FeedNaN(item) == isNaN(parseFloat(item.latitude)) \/ isNaN(parseFloat(item.longitude))

\* mutant: a record with NaN coordinates ends the loop
RECURSIVE ThinFromAborting(_, _, _, _)
ThinFromAborting(items, i, kept, minDist) ==
  IF i > Len(items) THEN kept
  ELSE IF FeedNaN(items[i]) THEN kept
  ELSE IF \E k \in 1..Len(kept) : TooClose(FeedPos(items[i]), FeedPos(items[kept[k]]), minDist)
       THEN ThinFromAborting(items, i + 1, kept, minDist)
       ELSE ThinFromAborting(items, i + 1, Append(kept, i), minDist)

thinByDistanceAborting(items, minDist) == ThinFromAborting(items, 1, <<>>, minDist)

\* thinByDistance's loop from item i on; kept holds the positions in items
\* of the items kept so far
RECURSIVE ThinFrom(_, _, _, _)
ThinFrom(items, i, kept, minDist) ==
  IF i > Len(items) THEN kept
  ELSE IF FeedNaN(items[i]) THEN ThinFrom(items, i + 1, kept, minDist)
  ELSE IF \E k \in 1..Len(kept) : TooClose(FeedPos(items[i]), FeedPos(items[kept[k]]), minDist)
       THEN ThinFrom(items, i + 1, kept, minDist)
       ELSE ThinFrom(items, i + 1, Append(kept, i), minDist)

\* thinByDistance(items, minDist, latFn, lngFn), as the positions kept
thinByDistance(items, minDist) == ThinFrom(items, 1, <<>>, minDist)

\* priority.indexOf(category), 99 when absent
CrimePriority(category) == IF category = "violent-crime" THEN 0 ELSE 99

\* crimes.sort by priority
SortCrimes(crimes) ==
  StableSortAsc(crimes, [k \in 1..Len(crimes) |-> CrimePriority(crimes[k].category)])

\* the positions in the sorted batch of the records that get a marker:
\* thinned to 80 m, at most 60, NaN coordinates returned from
MarkerIdx(sorted) ==
  SelectSeq(Take(thinByDistance(sorted, 80), 60), LAMBDA i : ~ FeedNaN(sorted[i]))

\* the records a feed answer is made of
FeedRecords ==
  { [category |-> "other-crime", latitude |-> Field("num", 422722), longitude |-> Field("num", -837302)],
    [category |-> "other-crime", latitude |-> Field("num", 422722), longitude |-> Field("num", -837297)],
    [category |-> "violent-crime", latitude |-> Field("num", 422722), longitude |-> Field("num", -837294)],
    [category |-> "other-crime", latitude |-> Field("text", 0), longitude |-> Field("num", -837302)],
    [category |-> "violent-crime", latitude |-> Field("none", 0), longitude |-> Field("none", 0)],
    [category |-> "other-crime", latitude |-> Field("prefixed", 422730), longitude |-> Field("num", -837302)] }

MaxBatch == 3

FeedBatches == UNION { [1..n -> FeedRecords] : n \in 1..MaxBatch }

\* the zones in the bounding box of the pass-1 route padded by 0.018 degree
CollectDangerZones(markers, coords) ==
  LET lats == [i \in 1..Len(coords) |-> coords[i].lat]
      lngs == [i \in 1..Len(coords) |-> coords[i].lng]
  IN getDangerZones(markers, Bounds(SeqMin(lats) - 180, SeqMin(lngs) - 180,
                                    SeqMax(lats) + 180, SeqMax(lngs) + 180))

(***************************************************************************)
(* Tables of the pure functions over the routes and zone sets that occur:  *)
(* the same values as the operators, evaluated once                         *)
(***************************************************************************)
ZoneSets == { CollectDangerZones(m, Coords(r)) : m \in MarkerSets, r \in RouteIds }

HitsOf == [r \in RouteIds, z \in ZoneSets |-> findDangerIntersections(Coords(r), z)]

ThrowsOf == [r \in RouteIds, z \in ZoneSets |-> BuildThrows(Coords(r), HitsOf[r, z])]

DetourOf == [r \in RouteIds, z \in ZoneSets |->
               IF ThrowsOf[r, z] THEN <<>> ELSE buildDetourWaypoints(Coords(r), HitsOf[r, z])]

ScoreOf == [r \in RouteIds, m \in MarkerSets |-> scoreRouteSafety(m, Coords(r))]

\* the cells generated when the zones are collected around pass-1 route r
CollectCellsOf ==
  [r \in RouteIds |->
     LET lats == [i \in 1..Len(Coords(r)) |-> Coords(r)[i].lat]
         lngs == [i \in 1..Len(Coords(r)) |-> Coords(r)[i].lng]
     IN CellsOf(Bounds(SeqMin(lats) - 180, SeqMin(lngs) - 180,
                       SeqMax(lats) + 180, SeqMax(lngs) + 180))]

\* the cells generated when route r is scored
ScoreCellsOf ==
  [r \in RouteIds |->
     LET lats == [i \in 1..Len(Coords(r)) |-> Coords(r)[i].lat]
         lngs == [i \in 1..Len(Coords(r)) |-> Coords(r)[i].lng]
     IN CellsOf(Bounds(SeqMin(lats) - 50, SeqMin(lngs) - 50,
                       SeqMax(lats) + 50, SeqMax(lngs) + 50))]

(***************************************************************************)
(* Direct calls of the MapModule and geometry functions: the polylines,    *)
(* points and boxes they are called with                                    *)
(***************************************************************************)
LineIds == RouteIds \cup {"empty", "dense", "sparse", "far"}

\* the polylines the detector and the waypoint builder are called with
DetectLines == LineIds \cup {"weave1", "weave2", "long", "gaps", "spread", "bend"}

\* n points going east from (lat, lng) in steps of 1e-4 degree, away from every zone
Gap(lat, lng, n) == Line(lat, lng, 0, 1, n)

\* the polyline of a direct call
LineCoords(l) ==
  CASE l \in RouteIds -> Coords(l)
    [] l = "empty"  -> <<>>
    [] l = "dense"  -> Line(422825, -837440, -1, 0, 51)         \* 51 points across the hotspots
    [] l = "sparse" -> << Pt(422900, -837440), Pt(422700, -837440) >>  \* one segment through a hotspot's centre
    [] l = "far"    -> Line(423050, -837440, -5, 0, 5)          \* away from every zone
    \* from pair A's origin to its destination, four times into a zone
    \* (hotspots, marker, hotspots, marker) with 20 points and more between
    [] l = "weave1" -> <<Pt(422900, -837440)>>
                       \o Line(422800, -837440, -2, 2, 3) \o Gap(422761, -837380, 20)
                       \o Line(422722, -837310, 0, 3, 3)  \o Gap(422780, -837300, 22)
                       \o Line(422796, -837436, 2, -2, 3) \o Gap(422740, -837480, 20)
                       \o Line(422722, -837304, 0, -3, 3) \o <<Pt(422700, -837440)>>
    [] l = "weave2" -> <<Pt(422900, -837440)>>
                       \o Line(422800, -837440, -2, 2, 3) \o Gap(422850, -837440, 20)
                       \o Line(422722, -837310, 0, 3, 3)  \o Gap(422670, -837330, 22)
                       \o Line(422796, -837436, 2, -2, 3) \o Gap(422800, -837370, 20)
                       \o Line(422722, -837304, 0, -3, 3) \o <<Pt(422700, -837440)>>
    \* 500 points, so every second one is sampled: three in the hotspots at
    \* indices 100..102, one at the odd index 301
    [] l = "long"   -> Line(422761, -837380, 0, 0, 100) \o Line(422800, -837440, -2, 2, 3)
                       \o Line(422761, -837380, 0, 0, 198) \o <<Pt(422800, -837440)>>
                       \o Line(422761, -837380, 0, 0, 198)
    \* single points in the hotspots at indices 10, 29 and 49: index gaps of
    \* 19 and 20
    [] l = "gaps"   -> Gap(422761, -837380, 10) \o <<Pt(422800, -837440)>>
                       \o Gap(422761, -837380, 18) \o <<Pt(422800, -837440)>>
                       \o Gap(422761, -837380, 19) \o <<Pt(422800, -837440)>>
                       \o Gap(422761, -837380, 10)
    \* single points in the hotspots at indices 10, 30, 50, 67, 84 and 104:
    \* four clusters, the third spanning 34 indices
    [] l = "spread" -> Gap(422761, -837380, 10) \o <<Pt(422800, -837440)>>
                       \o Gap(422761, -837380, 19) \o <<Pt(422800, -837440)>>
                       \o Gap(422761, -837380, 19) \o <<Pt(422800, -837440)>>
                       \o Gap(422761, -837380, 16) \o <<Pt(422800, -837440)>>
                       \o Gap(422761, -837380, 16) \o <<Pt(422800, -837440)>>
                       \o Gap(422761, -837380, 19) \o <<Pt(422800, -837440)>>
                       \o Gap(422761, -837380, 15)
    \* eastwards 110 m north of the hotspots, then bending to the north-east
    [] l = "bend"   -> Line(422810, -837464, 0, 4, 15) \o Line(422813, -837404, 3, 4, 12)

LineScoreOf == [l \in LineIds, m \in MarkerSets |-> scoreRouteSafety(m, LineCoords(l))]

\* the zones the scorer reads for a polyline
LineZonesOf ==
  [l \in LineIds, m \in MarkerSets |->
     IF LineCoords(l) = <<>> THEN <<>>
     ELSE getDangerZones(m, RouteBounds(LineCoords(l), 50))]

\* the cells generated when the polyline is scored
LineCellsOf ==
  [l \in LineIds |->
     IF LineCoords(l) = <<>> THEN {} ELSE CellsOf(RouteBounds(LineCoords(l), 50))]

\* findDangerIntersections for each polyline and each zone list
LineHitsOf == [l \in DetectLines, z \in ZoneSets |-> findDangerIntersections(LineCoords(l), z)]

\* the clusters buildDetourWaypoints forms of the hits (none without hits)
LineClustersOf ==
  [l \in DetectLines, z \in ZoneSets |->
     IF Len(LineHitsOf[l, z]) = 0 THEN <<>> ELSE ClusterHits(LineHitsOf[l, z])]

LineThrowsOf == [l \in DetectLines, z \in ZoneSets |-> BuildThrows(LineCoords(l), LineHitsOf[l, z])]

\* buildDetourWaypoints for each polyline and each zone list
LineDetourOf ==
  [l \in DetectLines, z \in ZoneSets |->
     IF LineThrowsOf[l, z] THEN <<>> ELSE buildDetourWaypoints(LineCoords(l), LineHitsOf[l, z])]

\* the entry, bypass and exit waypoints buildDetourWaypoints pushes for each
\* cluster, before the sort and the cap
LineTriplesOf ==
  [l \in DetectLines, z \in ZoneSets |->
     IF Len(LineHitsOf[l, z]) = 0 \/ LineThrowsOf[l, z] THEN <<>>
     ELSE [c \in 1..Len(LineClustersOf[l, z]) |->
             ClusterWaypoints(LineCoords(l), LineClustersOf[l, z][c])]]

\* the sides the three waypoints of each cluster are moved to
LineSidesOf ==
  [l \in DetectLines, z \in ZoneSets |->
     IF Len(LineHitsOf[l, z]) = 0 \/ LineThrowsOf[l, z] THEN <<>>
     ELSE [c \in 1..Len(LineClustersOf[l, z]) |->
             ClusterSides(LineCoords(l), LineClustersOf[l, z][c])]]

\* the best routes the refinement loop is run on by itself
IterLines == {"A1", "A5", "weave1", "weave2"}

\* the boxes getDangerZones is called with
QueryBounds ==
  { Bounds(422700, -837350, 422750, -837250),      \* around pair B's routes
    Bounds(422750, -837480, 422850, -837400),      \* around the hotspots on pair A's routes
    Bounds(423000, -837460, 423060, -837420) }     \* an area without zones

\* where the user may file a community report
ReportPoints == { Pt(422725, -837298), Pt(422801, -837436) }

\* points handed to _quickDistMeters on its own: two latitudes on either
\* side of 43 degrees, and two points of one latitude
ProbePoints ==
  { Pt(429850, -837400), Pt(430150, -837000), Pt(429850, -837000),
    Pt(429900, -837200) }

(***************************************************************************)
(* State                                                                   *)
(***************************************************************************)
VARIABLES
  crimeMarkers,      \* MapModule: real crime markers on the map
  fetch,             \* per pair: the fetchRoutes invocation for it (locals and position)
  currentRoutes,     \* RoutesModule: the scored candidates
  rawOsrmRoutes,     \* RoutesModule: the raw provider routes kept for step data
  routeLines,        \* RoutesModule: polylines drawn on the map
  selectedRouteIdx,  \* RoutesModule: previewed route
  container,         \* content of #routeOptions
  panelActive,       \* #routePanel has class active
  invocations,       \* number of fetchRoutes calls so far
  reportMarkers,     \* MapModule: community report markers on the map
  hotspotCache,      \* MapModule: _hotspotCache, cell key -> hotspots
  probe,             \* the last direct call of a MapModule / geometry function and its result
  sos                \* EmergencyModule: modal, swipe and countdown state, timers pending

vars == << crimeMarkers, fetch, currentRoutes, rawOsrmRoutes, routeLines,
           selectedRouteIdx, container, panelActive, invocations,
           reportMarkers, hotspotCache, probe, sos >>

\* bound: fetchRoutes calls in one behaviour
MaxInvocations == 2

\* bound: community reports in one behaviour
MaxReports == 1

MAX_ITER == 3

\* selectedRouteIdx = null
null == -1

IdleFetch ==
  [ state |-> "Idle",        \* Idle, DirectFetchInFlight, Refining, Done, Failed
    shown |-> "none",        \* what the invocation left in the panel: cards, noRoute, error
    phase |-> "none",        \* provider call: none, headers (awaiting fetch), body (awaiting json)
    timeoutMs |-> 0,         \* armed abort timer, 0 when none
    iter |-> 0,
    directRoutes |-> <<>>,
    dangerZones |-> <<>>,
    bestRoute |-> "none",
    iterWPs |-> <<>>,
    safeRoutes |-> <<>>,
    via |-> <<>>,            \* via-points of the request in flight
    requests |-> 0,          \* provider requests issued by this invocation
    answered |-> 0,          \* provider requests whose awaited promise has settled
    resp |-> "none",         \* how the last provider call ended: ok, empty, error
    seq |-> 0 ]              \* ordinal of this invocation among all fetchRoutes calls

NoProbe == [op |-> "none"]

(***************************************************************************)
(* EmergencyModule (src/js/emergency.js): the SOS modal, the swipe          *)
(* confirmation, the countdown and the alert.  Timers are kept as pending   *)
(* callbacks that run in any order the delays allow.                        *)
(***************************************************************************)
\* bound: confirmed swipes in one behaviour
MaxSwipes == 2

\* bound: alerts dispatched in one behaviour
MaxAlerts == 3

\* bound: ticks counted below zero
MaxOverrun == 2

\* module state at load: modal closed, nothing pending.  intervals holds the
\* ids of the setInterval timers not cleared; hidePending, startPending and
\* closePending count the setTimeout callbacks of 300 ms, 350 ms and 3000 ms
\* not yet run
SosInit ==
  [ modal |-> FALSE, swipeConfirmed |-> FALSE, sliderShown |-> TRUE,
    sendNowShown |-> FALSE, sent |-> FALSE,
    countdownInterval |-> null, countdownValue |-> 5,
    intervals |-> {}, nextId |-> 1,
    hidePending |-> 0, startPending |-> 0, closePending |-> 0,
    swipes |-> 0, alerts |-> 0 ]

\* resetState: countdown and Send Now hidden, slider shown, swipe flags
\* cleared, countdownValue = 5
resetState(e) ==
  [e EXCEPT !.sendNowShown = FALSE, !.sent = FALSE, !.sliderShown = TRUE,
            !.swipeConfirmed = FALSE, !.countdownValue = 5]

\* stopCountdown: clearInterval(countdownInterval) when it is set
stopCountdown(e) ==
  IF e.countdownInterval # null
  THEN [e EXCEPT !.intervals = @ \ {e.countdownInterval}, !.countdownInterval = null]
  ELSE e

\* closeSOS
closeSOS(e) == resetState([stopCountdown(e) EXCEPT !.modal = FALSE])

\* startCountdown: countdownValue = 5 and a new interval timer, whose id
\* replaces the one in countdownInterval
startCountdown(e) ==
  [e EXCEPT !.countdownValue = 5, !.intervals = @ \cup {e.nextId},
            !.countdownInterval = e.nextId, !.nextId = @ + 1]

\* sendAlert: the countdown is stopped, the sent panel shown, the alert
\* handed to the mail or share sheet, and closeSOS scheduled in 3000 ms
sendAlert(e) ==
  [stopCountdown(e) EXCEPT !.sendNowShown = FALSE, !.sent = TRUE,
                           !.alerts = @ + 1, !.closePending = @ + 1]

Unrelated ==
  << crimeMarkers, fetch, currentRoutes, rawOsrmRoutes, routeLines,
     selectedRouteIdx, container, panelActive, invocations,
     reportMarkers, hotspotCache, probe >>

\* click on #sosBtn: openSOS
OpenSOS ==
  /\ ~ sos.modal
  /\ sos' = [resetState(sos) EXCEPT !.modal = TRUE]
  /\ UNCHANGED Unrelated

\* the thumb is dragged past 95 % of the track: onSwipeMove confirms and
\* onSwipeConfirmed schedules the slide-out in 300 ms
SwipeConfirm ==
  /\ sos.modal
  /\ sos.sliderShown
  /\ ~ sos.swipeConfirmed
  /\ sos.swipes < MaxSwipes
  /\ sos' = [sos EXCEPT !.swipeConfirmed = TRUE, !.hidePending = @ + 1, !.swipes = @ + 1]
  /\ UNCHANGED Unrelated

\* the 300 ms callback: the slider is hidden and the countdown start is
\* scheduled in 350 ms
HideFires ==
  /\ sos.hidePending > 0
  /\ sos' = [sos EXCEPT !.hidePending = @ - 1, !.sliderShown = FALSE, !.startPending = @ + 1]
  /\ UNCHANGED Unrelated

\* the 350 ms callback: countdown and Send Now shown, startCountdown
StartFires ==
  /\ sos.startPending > 0
  /\ sos' = startCountdown([sos EXCEPT !.startPending = @ - 1, !.sendNowShown = TRUE])
  /\ UNCHANGED Unrelated

\* a tick of interval timer id: countdownValue--, and at 0 or below
\* stopCountdown and sendAlert
Tick(id) ==
  /\ id \in sos.intervals
  /\ sos.countdownValue > 0 - MaxOverrun
  /\ sos.alerts < MaxAlerts
  /\ \E e \in { [sos EXCEPT !.countdownValue = @ - 1] } :
       sos' = IF e.countdownValue <= 0 THEN sendAlert(stopCountdown(e)) ELSE e
  /\ UNCHANGED Unrelated

\* click on #sosSendNow: sendAlert
SendNow ==
  /\ sos.modal
  /\ sos.sendNowShown
  /\ sos.alerts < MaxAlerts
  /\ sos' = sendAlert(sos)
  /\ UNCHANGED Unrelated

\* click on #sosCancel, #sosModalClose or the backdrop: closeSOS
CloseSOS ==
  /\ sos.modal
  /\ sos' = closeSOS(sos)
  /\ UNCHANGED Unrelated

\* the 3000 ms callback of sendAlert: closeSOS
AutoClose ==
  /\ sos.closePending > 0
  /\ sos' = closeSOS([sos EXCEPT !.closePending = @ - 1])
  /\ UNCHANGED Unrelated

Init ==
  /\ crimeMarkers = <<>>
  /\ fetch = [p \in Pairs |-> IdleFetch]
  /\ currentRoutes = <<>>
  /\ rawOsrmRoutes = <<>>
  /\ routeLines = <<>>
  /\ selectedRouteIdx = null
  /\ container = [kind |-> "empty", msg |-> "", retry |-> "none", cards |-> <<>>]
  /\ panelActive = FALSE
  /\ invocations = 0
  /\ reportMarkers = <<>>
  /\ hotspotCache = << >>
  /\ probe = NoProbe
  /\ sos = SosInit

InFlight(f) == f.state \in {"DirectFetchInFlight", "Refining"}

(***************************************************************************)
(* fetchRoutes: the pieces of one invocation                                *)
(***************************************************************************)
\* mutant: every new waypoint is pushed
MergeWPsAll(iterWPs, newWPs) == iterWPs \o newWPs

\* newWPs.forEach: a new waypoint is pushed unless one already in iterWPs
\* lies within 120 m of it
RECURSIVE MergeWPs(_, _)
MergeWPs(iterWPs, newWPs) ==
  IF newWPs = <<>> THEN iterWPs
  ELSE LET wp  == Head(newWPs)
           dup == \E k \in 1..Len(iterWPs) :
                    _quickDistMeters(iterWPs[k].lat, iterWPs[k].lng, wp.lat, wp.lng) < 120
       IN MergeWPs(IF dup THEN iterWPs ELSE Append(iterWPs, wp), Tail(newWPs))

\* iterWPs.sort by distance from the origin
SortWPs(origin, wps) ==
  StableSortAsc(wps, [k \in 1..Len(wps) |->
                        _quickDistMeters(origin.lat, origin.lng, wps[k].lat, wps[k].lng)])

\* mutant: one snap radius per via-point only
_osrmUrlViaRadiiOnly(origin, destination, viaPoints) ==
  [ coords   |-> <<origin>> \o [k \in 1..Len(viaPoints) |-> Pt(viaPoints[k].lat, viaPoints[k].lng)]
                 \o <<destination>>,
    radiuses |-> [k \in 1..Len(viaPoints) |-> "1000"] ]

\* _osrmUrl: the coordinate list and the radiuses parameter of a request
_osrmUrl(origin, destination, viaPoints) ==
  [ coords   |-> <<origin>> \o [k \in 1..Len(viaPoints) |-> Pt(viaPoints[k].lat, viaPoints[k].lng)]
                 \o <<destination>>,
    radiuses |-> IF Len(viaPoints) > 0
                 THEN <<"unlimited">> \o [k \in 1..Len(viaPoints) |-> "1000"] \o <<"unlimited">>
                 ELSE <<>> ]

\* mutant: the key is the distance itself, no 50 m bucket
DistKeyExact(r) == Distance(r)

\* Math.round(r.distance / 50)
DistKey(r) == RoundDiv(Distance(r), 50)

\* dedupedRoutes: a route is kept unless an earlier kept route has its key
RECURSIVE DedupFrom(_, _, _)
DedupFrom(routes, seenDist, deduped) ==
  IF routes = <<>> THEN deduped
  ELSE LET r == Head(routes)
       IN IF DistKey(r) \in seenDist
          THEN DedupFrom(Tail(routes), seenDist, deduped)
          ELSE DedupFrom(Tail(routes), seenDist \cup {DistKey(r)}, Append(deduped, r))

DedupRoutes(routes) == DedupFrom(routes, {}, <<>>)

\* finalData.routes: the safe pool, then the pass-1 routes
MergedRoutes(f) ==
  IF Len(f.safeRoutes) > 0 THEN f.safeRoutes \o f.directRoutes ELSE f.directRoutes

\* mutant: no cap
CappedRoutesUncapped(f) == DedupRoutes(MergedRoutes(f))

\* cappedRoutes: at most 4
CappedRoutes(f) == Take(DedupRoutes(MergedRoutes(f)), 4)

\* cappedRoutes.map: one candidate per route (name, time, distance and colour
\* are display text derived from the route; coords names the route's polyline)
Candidate(markers, route, i) ==
  [ idx |-> i,
    coords |-> route,
    safetyScore |-> ScoreOf[route, markers],
    durationSec |-> Duration(route),
    badge |-> "",
    recommended |-> FALSE ]

\* mutant: comparator reversed, lowest score first
SortBySafetyAscending(cands) ==
  StableSortAsc(cands, [k \in 1..Len(cands) |-> cands[k].safetyScore])

\* mutant: the candidates are renumbered by their place after the sort
SortBySafetyRenumbered(cands) ==
  LET sorted == StableSortAsc(cands, [k \in 1..Len(cands) |-> 0 - cands[k].safetyScore])
  IN [k \in 1..Len(sorted) |-> [sorted[k] EXCEPT !.idx = k - 1]]

\* currentRoutes.sort((a, b) => b.safetyScore - a.safetyScore)
SortBySafety(cands) ==
  StableSortAsc(cands, [k \in 1..Len(cands) |-> 0 - cands[k].safetyScore])

\* currentRoutes.reduce((min, c) => c.durationSec < min.durationSec ? c : min,
\*                      currentRoutes[0]).idx
RECURSIVE FastestFrom(_, _, _)
FastestFrom(cands, i, min) ==
  IF i > Len(cands) THEN min
  ELSE FastestFrom(cands, i + 1, IF cands[i].durationSec < min.durationSec THEN cands[i] ELSE min)

\* mutant: the reduce keeps the larger duration
RECURSIVE SlowestFrom(_, _, _)
SlowestFrom(cands, i, min) ==
  IF i > Len(cands) THEN min
  ELSE SlowestFrom(cands, i + 1, IF cands[i].durationSec > min.durationSec THEN cands[i] ELSE min)

FastestIdxReversed(cands) == SlowestFrom(cands, 1, cands[1]).idx

FastestIdx(cands) == FastestFrom(cands, 1, cands[1]).idx

\* badges after sorting
AssignBadges(cands) ==
  LET fastestIdx == FastestIdx(cands)
  IN [i \in 1..Len(cands) |->
        IF i = 1 THEN [cands[i] EXCEPT !.badge = "Safest", !.recommended = TRUE]
        ELSE IF cands[i].idx = fastestIdx /\ fastestIdx # cands[1].idx
             THEN [cands[i] EXCEPT !.badge = "Fastest"]
        ELSE [cands[i] EXCEPT !.badge = IF cands[i].safetyScore >= 55
                                        THEN "Alternative" ELSE "Avoid"]]

\* currentRoutes as left by lines 394-453
ScoredRoutes(markers, capped) ==
  AssignBadges(SortBySafety([i \in 1..Len(capped) |-> Candidate(markers, capped[i], i - 1)]))

(***************************************************************************)
(* fetchRoutes: the steps of one invocation.  The code runs to completion  *)
(* between awaits, so each action is one resumption up to the next await.  *)
(***************************************************************************)
Ended(f, state, shown) ==
  [f EXCEPT !.state = state, !.shown = shown, !.phase = "none", !.timeoutMs = 0]

\* the cells whose hotspots invocation f has asked for when it collected its zones
CollectCells(f) ==
  IF f.directRoutes = <<>> THEN {} ELSE CollectCellsOf[f.directRoutes[1]]

\* mutant: the awaited call is left pending when the function goes on
SettledNotAwaited(f, how) == [f EXCEPT !.resp = how]

\* await _osrmFetch(...) returns or throws: the request is no longer in flight
Settled(f, how) == [f EXCEPT !.resp = how, !.answered = @ + 1]

\* lines 359-466: merge, dedup, cap, score, sort, badge, render, draw, preview
Finalize(p, f) ==
  \E capped \in {CappedRoutes(f)} :
    \E cands \in {ScoredRoutes(crimeMarkers, capped)} :
     /\ rawOsrmRoutes' = capped
     /\ currentRoutes' = cands
     /\ container' = [kind |-> "cards", msg |-> "", retry |-> "none",
                      cards |-> [k \in 1..Len(cands) |-> cands[k].coords]]
     /\ routeLines' = [k \in 1..Len(cands) |-> [idx |-> cands[k].idx, coords |-> cands[k].coords]]
     /\ selectedRouteIdx' = cands[1].idx
     /\ fetch' = [fetch EXCEPT ![p] = Ended(f, "Done", "cards")]
     /\ hotspotCache' = FillCache(hotspotCache,
                            CollectCells(f) \cup UNION { ScoreCellsOf[capped[k]] : k \in 1..Len(capped) })
     /\ UNCHANGED << sos, crimeMarkers, panelActive, invocations, reportMarkers, probe >>

\* lines 468-498: the outer catch shows the error card with the Retry button
Fail(p, f, msg) ==
  /\ container' = [kind |-> "error", msg |-> msg, retry |-> p, cards |-> <<>>]
  /\ fetch' = [fetch EXCEPT ![p] = Ended(f, "Failed", "error")]
  /\ hotspotCache' = FillCache(hotspotCache, CollectCells(f))
  /\ UNCHANGED << sos, crimeMarkers, currentRoutes, rawOsrmRoutes, routeLines,
                  selectedRouteIdx, panelActive, invocations, reportMarkers, probe >>

\* lines 285-295: pass 1 returned no route; the card has no Retry button
NoRoute(p, f) ==
  /\ container' = [kind |-> "noRoute", msg |-> "No walking route found",
                   retry |-> "none", cards |-> <<>>]
  /\ fetch' = [fetch EXCEPT ![p] = Ended(f, "Failed", "noRoute")]
  /\ UNCHANGED << sos, crimeMarkers, currentRoutes, rawOsrmRoutes, routeLines,
                  selectedRouteIdx, panelActive, invocations,
                  reportMarkers, hotspotCache, probe >>

\* mutant: loop test off by one
LoopTestOffByOne(f) == f.iter <= MAX_ITER

\* for (let iter = 0; iter < MAX_ITER; iter++)
LoopTest(f) == f.iter < MAX_ITER

\* mutant: the loop never takes a route for clear
RouteIsClearNever(hits) == FALSE

\* if (hits.length === 0) break
RouteIsClear(hits) == Len(hits) = 0

\* mutant: no cap
CapWPsNone(wps) == wps

\* iterWPs.slice(0, 12)
CapWPs(wps) == Take(wps, 12)

\* mutant: the zones are queried again for the current best route
DetectorZonesRequeried(f, markers) == CollectDangerZones(markers, Coords(f.bestRoute))

\* the dangerZones the loop hands to findDangerIntersections: the const of
\* line 305, whatever markers the map holds by now
DetectorZones(f, markers) == f.dangerZones

\* lines 322-344: the loop from its test to the next await, or to its end
RunLoop(p, f) ==
  \E zones \in {DetectorZones(f, crimeMarkers)} :
  \E hits \in {HitsOf[f.bestRoute, zones]} :
     IF ~ LoopTest(f) \/ RouteIsClear(hits)
     THEN Finalize(p, f)
     ELSE IF ThrowsOf[f.bestRoute, zones]
     THEN Fail(p, f, "Route calculation failed")
     ELSE \E newWPs \in {DetourOf[f.bestRoute, zones]} :
          \E merged \in {SortWPs(Origin(p), MergeWPs(f.iterWPs, newWPs))} :
          \E cappedWPs \in {CapWPs(merged)} :
             /\ fetch' = [fetch EXCEPT ![p] =
                            [f EXCEPT !.state = "Refining", !.iterWPs = merged,
                                      !.via = cappedWPs, !.phase = "headers",
                                      !.timeoutMs = 12000, !.requests = @ + 1,
                                      !.resp = "none"]]
             /\ hotspotCache' = FillCache(hotspotCache, CollectCells(f))
             /\ UNCHANGED << sos, crimeMarkers, currentRoutes, rawOsrmRoutes, routeLines,
                             selectedRouteIdx, container, panelActive, invocations,
                             reportMarkers, probe >>

\* mutant: the pool grows but the best route stays the one before
AfterRefineKeepsBest(f, routes) ==
  [f EXCEPT !.safeRoutes = @ \o routes, !.iter = @ + 1]

\* lines 345-349: safeRoutes.push(...safeData.routes), bestRoute and
\* bestCoords are those of safeData.routes[0]; then iter++
AfterRefine(f, routes) ==
  [f EXCEPT !.safeRoutes = @ \o routes, !.bestRoute = routes[1], !.iter = @ + 1]

\* mutant: no inner try/catch, every rejected call reaches the outer catch
ProviderFailureFatal(p, msg) ==
  \E f \in { Settled(fetch[p], "error") } : Fail(p, f, msg)

\* a rejected provider call: fatal in pass 1, a break of the loop in refinement
ProviderFailure(p, msg) ==
  \E f \in { Settled(fetch[p], "error") } :
    IF f.state = "DirectFetchInFlight"
    THEN Fail(p, f, msg)
    ELSE Finalize(p, f)

\* lines 264-283: showPanel, the loading card, the pass-1 request
StartFetch(p) ==
  /\ invocations < MaxInvocations
  /\ ~ InFlight(fetch[p])
  /\ invocations' = invocations + 1
  /\ panelActive' = TRUE
  /\ selectedRouteIdx' = null
  /\ container' = [kind |-> "loading", msg |-> "", retry |-> "none", cards |-> <<>>]
  /\ fetch' = [fetch EXCEPT ![p] =
                 [IdleFetch EXCEPT !.state = "DirectFetchInFlight", !.phase = "headers",
                                   !.timeoutMs = 15000, !.requests = 1,
                                   !.seq = invocations + 1]]
  /\ UNCHANGED << sos, crimeMarkers, currentRoutes, rawOsrmRoutes, routeLines,
                  reportMarkers, hotspotCache, probe >>

\* the user taps "Get the Route" for a destination
GetRoute(p) == StartFetch(p)

\* the user taps the Retry button of the error card
Retry(p) ==
  /\ container.kind = "error"
  /\ container.retry = p
  /\ StartFetch(p)

\* fetch() resolves with an ok response: the timer is cleared, resp.json() is awaited
HeadersOk(p) ==
  /\ fetch[p].phase = "headers"
  /\ fetch' = [fetch EXCEPT ![p] = [@ EXCEPT !.phase = "body", !.timeoutMs = 0]]
  /\ UNCHANGED << sos, crimeMarkers, currentRoutes, rawOsrmRoutes, routeLines,
                  selectedRouteIdx, container, panelActive, invocations,
                  reportMarkers, hotspotCache, probe >>

\* fetch() resolves with a non-2xx response
HttpError(p) ==
  /\ fetch[p].phase = "headers"
  /\ ProviderFailure(p, "Routing server error")

\* fetch() rejects
NetworkError(p) ==
  /\ fetch[p].phase = "headers"
  /\ ProviderFailure(p, "Network error")

\* the abort timer fires while fetch() is pending
Timeout(p) ==
  /\ fetch[p].phase = "headers"
  /\ fetch[p].timeoutMs > 0
  /\ ProviderFailure(p, "Request timed out")

\* resp.json() rejects
BodyError(p) ==
  /\ fetch[p].phase = "body"
  /\ ProviderFailure(p, "Route calculation failed")

\* resp.json() resolves in pass 1
DirectBody(p) ==
  /\ fetch[p].phase = "body"
  /\ fetch[p].state = "DirectFetchInFlight"
  /\ \E routes \in DirectResponses(p) \cup {<<>>} :
       IF Len(routes) = 0
       THEN NoRoute(p, Settled(fetch[p], "empty"))
       ELSE \E f \in { [Settled(fetch[p], "ok") EXCEPT
                          !.phase = "none",
                          !.directRoutes = routes,
                          !.dangerZones = CollectDangerZones(crimeMarkers, Coords(routes[1])),
                          !.bestRoute = routes[1]] } : RunLoop(p, f)

\* resp.json() resolves in a refinement iteration
RefineBody(p) ==
  /\ fetch[p].phase = "body"
  /\ fetch[p].state = "Refining"
  /\ \E routes \in RefineResponses(p) \cup {<<>>} :
       IF Len(routes) = 0
       THEN Finalize(p, Settled(fetch[p], "empty"))
       ELSE \E f \in { AfterRefine([Settled(fetch[p], "ok") EXCEPT !.phase = "none"],
                                     routes) } : RunLoop(p, f)

\* closePanel: clearRoutes
ClosePanel ==
  /\ panelActive
  /\ panelActive' = FALSE
  /\ routeLines' = <<>>
  /\ selectedRouteIdx' = null
  /\ currentRoutes' = <<>>
  /\ rawOsrmRoutes' = <<>>
  /\ UNCHANGED << sos, crimeMarkers, fetch, container, invocations,
                  reportMarkers, hotspotCache, probe >>

\* loadUKCrimeData / loadDetroitCrimeData / loadFBICrimeData, from the feed's
\* non-empty answer on: the markers on the map are removed and replaced by
\* the feed's.  The load is started by the debounced moveend handler and by
\* locateUser.
CrimeReload(m) ==
  /\ m # <<>>
  /\ m \in FeedAnswers(crimeMarkers)
  /\ crimeMarkers' = m
  /\ UNCHANGED << sos, fetch, currentRoutes, rawOsrmRoutes, routeLines, selectedRouteIdx,
                  container, panelActive, invocations, reportMarkers, hotspotCache, probe >>

\* MapModule.scoreRouteSafety(coords), called on its own
ScoreCall(l) ==
  /\ probe' = [op |-> "score", line |-> l, markers |-> crimeMarkers,
               result |-> LineScoreOf[l, crimeMarkers]]
  /\ hotspotCache' = FillCache(hotspotCache, LineCellsOf[l])
  /\ UNCHANGED << sos, crimeMarkers, fetch, currentRoutes, rawOsrmRoutes, routeLines,
                  selectedRouteIdx, container, panelActive, invocations, reportMarkers >>

\* findDangerIntersections(routeCoords, dangerZones), called on its own
DetectCall(l, zs) ==
  /\ probe' = [op |-> "detect", line |-> l, zones |-> zs, result |-> LineHitsOf[l, zs]]
  /\ UNCHANGED << sos, crimeMarkers, fetch, currentRoutes, rawOsrmRoutes, routeLines,
                  selectedRouteIdx, container, panelActive, invocations,
                  reportMarkers, hotspotCache >>

\* buildDetourWaypoints(routeCoords, hits), called on its own with the hits
\* findDangerIntersections finds.  The probe keeps the clusters formed and
\* whether the call threw instead of returning.
BuildCall(l, zs) ==
  /\ probe' = [op |-> "build", line |-> l, zones |-> zs, hits |-> LineHitsOf[l, zs],
               clusters |-> LineClustersOf[l, zs], triples |-> LineTriplesOf[l, zs],
               sides |-> LineSidesOf[l, zs],
               threw |-> LineThrowsOf[l, zs],
               result |-> LineDetourOf[l, zs]]
  /\ UNCHANGED << sos, crimeMarkers, fetch, currentRoutes, rawOsrmRoutes, routeLines,
                  selectedRouteIdx, container, panelActive, invocations,
                  reportMarkers, hotspotCache >>

\* the road bearings and the bearings to the zone centre safeSideBearing is
\* called with, in whole degrees
RoadBearings == {0, 45, 100, 355}

ZoneBearings == 0..359

\* safeSideBearing called on its own for a road bearing and a zone centre
\* at bearing toBearing from the point
SideCall(roadBearing, toBearing) ==
  /\ probe' = [op |-> "side", roadBearing |-> roadBearing, toBearing |-> toBearing,
               result |-> SafeSide(roadBearing, toBearing)]
  /\ UNCHANGED << sos, crimeMarkers, fetch, currentRoutes, rawOsrmRoutes, routeLines,
                  selectedRouteIdx, container, panelActive, invocations,
                  reportMarkers, hotspotCache >>

\* loadUKCrimeData from the answer on: the old markers are removed, the
\* batch is sorted by priority, thinned and capped, and each record left
\* with numeric coordinates becomes a marker
FeedCall(crimes) ==
  /\ \E sorted \in { SortCrimes(crimes) } :
     \E idx \in { MarkerIdx(sorted) } :
       /\ probe' = [op |-> "feed", batch |-> crimes, sorted |-> sorted, keptIdx |-> idx]
       /\ crimeMarkers' = [k \in 1..Len(idx) |-> FeedPos(sorted[idx[k]])]
  /\ UNCHANGED << sos, fetch, currentRoutes, rawOsrmRoutes, routeLines,
                  selectedRouteIdx, container, panelActive, invocations,
                  reportMarkers, hotspotCache >>

\* MapModule.getDangerZones(bounds), called on its own.  The probe keeps the
\* markers and reports on the map at the call, and the call before it when
\* that was for the same bounds.
QueryZones(b) ==
  /\ \E zs \in { getDangerZonesCached(hotspotCache, crimeMarkers, b) } :
       probe' = [op |-> "zones", bounds |-> b, markers |-> crimeMarkers,
                 reports |-> reportMarkers, result |-> zs,
                 prev |-> IF probe.op = "zones" /\ probe.bounds = b
                          THEN << [markers |-> probe.markers, result |-> probe.result] >>
                          ELSE << >>]
  /\ hotspotCache' = FillCache(hotspotCache, CellsOf(b))
  /\ UNCHANGED << sos, crimeMarkers, fetch, currentRoutes, rawOsrmRoutes, routeLines,
                  selectedRouteIdx, container, panelActive, invocations, reportMarkers >>

\* addReportMarker(latlng, category, emoji): the marker goes on the map and
\* into reportMarkers
AddReportMarker(latlng) ==
  /\ Len(reportMarkers) < MaxReports
  /\ reportMarkers' = Append(reportMarkers, latlng)
  /\ UNCHANGED << sos, crimeMarkers, fetch, currentRoutes, rawOsrmRoutes, routeLines,
                  selectedRouteIdx, container, panelActive, invocations,
                  hotspotCache, probe >>

\* _quickDistMeters(a.lat, a.lng, b.lat, b.lng), called on its own
DistCall(a, b) ==
  /\ probe' = [op |-> "dist", a |-> a, b |-> b,
               result |-> _quickDistMeters(a.lat, a.lng, b.lat, b.lng)]
  /\ UNCHANGED << sos, crimeMarkers, fetch, currentRoutes, rawOsrmRoutes, routeLines,
                  selectedRouteIdx, container, panelActive, invocations,
                  reportMarkers, hotspotCache >>

\* _osrmUrl(origin, destination) of pass 1, called on its own
PassOneUrlCall(p) ==
  /\ probe' = [op |-> "url", pair |-> p, via |-> <<>>,
               url |-> _osrmUrl(Origin(p), Destination(p), <<>>)]
  /\ UNCHANGED << sos, crimeMarkers, fetch, currentRoutes, rawOsrmRoutes, routeLines,
                  selectedRouteIdx, container, panelActive, invocations,
                  reportMarkers, hotspotCache >>

\* lines 322-343 run by themselves for pair A on best route l: detect,
\* build, merge, sort, cap, and the request's URL.  A call continues the
\* loop of the call before it (its zones and accumulated waypoints) until
\* MAX_ITER iterations are made, and begins a new loop otherwise, collecting
\* the zones around l.
IterationCall(l) ==
  \E cont \in { probe.op = "iteration" /\ probe.iter + 1 < MAX_ITER } :
  \E zones \in { IF cont THEN probe.zones
                  ELSE CollectDangerZones(crimeMarkers, LineCoords(l)) } :
  \E before \in { IF cont THEN probe.iterWPs ELSE <<>> } :
    /\ Len(LineHitsOf[l, zones]) > 0
    /\ ~ LineThrowsOf[l, zones]
    /\ \E merged \in { SortWPs(Origin("A"), MergeWPs(before, LineDetourOf[l, zones])) } :
       \E cappedWPs \in { CapWPs(merged) } :
         probe' = [op |-> "iteration", iter |-> IF cont THEN probe.iter + 1 ELSE 0,
                   line |-> l, zones |-> zones, before |-> before, iterWPs |-> merged,
                   via |-> cappedWPs,
                   url |-> _osrmUrl(Origin("A"), Destination("A"), cappedWPs)]
    /\ hotspotCache' = IF cont THEN hotspotCache
                       ELSE FillCache(hotspotCache, CellsOf(RouteBounds(LineCoords(l), 180)))
    /\ UNCHANGED << sos, crimeMarkers, fetch, currentRoutes, rawOsrmRoutes, routeLines,
                    selectedRouteIdx, container, panelActive, invocations, reportMarkers >>

Next ==
  \/ \E p \in Pairs : GetRoute(p)
  \/ \E p \in Pairs : Retry(p)
  \/ \E p \in Pairs : HeadersOk(p)
  \/ \E p \in Pairs : HttpError(p)
  \/ \E p \in Pairs : NetworkError(p)
  \/ \E p \in Pairs : Timeout(p)
  \/ \E p \in Pairs : BodyError(p)
  \/ \E p \in Pairs : DirectBody(p)
  \/ \E p \in Pairs : RefineBody(p)
  \/ ClosePanel
  \/ \E m \in MarkerSets : CrimeReload(m)

Spec == Init /\ [][Next]_vars

\* the map on its own: the feeds, and direct calls of the MapModule functions
MapNext ==
  \/ \E m \in MarkerSets : CrimeReload(m)
  \/ \E l \in LineIds : ScoreCall(l)
  \/ \E l \in LineIds, zs \in ZoneSets : DetectCall(l, zs)
  \/ \E b \in QueryBounds : QueryZones(b)
  \/ \E latlng \in ReportPoints : AddReportMarker(latlng)
  \/ \E a \in ProbePoints, b \in ProbePoints : DistCall(a, b)

MapSpec == Init /\ [][MapNext]_vars

\* the refinement loop's steps called directly, with the feeds loading
LoopNext ==
  \/ \E m \in MarkerSets : CrimeReload(m)
  \/ \E l \in DetectLines, zs \in ZoneSets : DetectCall(l, zs)
  \/ \E l \in DetectLines, zs \in ZoneSets : BuildCall(l, zs)
  \/ \E p \in Pairs : PassOneUrlCall(p)
  \/ \E l \in IterLines : IterationCall(l)

LoopSpec == Init /\ [][LoopNext]_vars

\* safeSideBearing called directly
SideNext == \E rb \in RoadBearings, tb \in ZoneBearings : SideCall(rb, tb)

SideSpec == Init /\ [][SideNext]_vars

\* the street-level feed answering with one batch after another
FeedNext == \E crimes \in FeedBatches : FeedCall(crimes)

FeedSpec == Init /\ [][FeedNext]_vars

\* setTimeout: an armed abort timer fires unless it is cleared first.  Nothing
\* obliges the provider to answer.
\* the SOS modal with its timers
SosNext ==
  \/ OpenSOS
  \/ SwipeConfirm
  \/ HideFires
  \/ StartFires
  \/ \E id \in 1..MaxSwipes : Tick(id)
  \/ SendNow
  \/ CloseSOS
  \/ AutoClose

SosSpec == Init /\ [][SosNext]_vars

FairSpec == Spec /\ \A p \in Pairs : WF_vars(Timeout(p))

(***************************************************************************)
(* Properties                                                              *)
(***************************************************************************)
Finished(f) == f.state \in {"Done", "Failed"}

\* the zones of zs within detection range (radius + 250 m) of a point of route r
ZonesOnRoute(r, zs) ==
  { j \in 1..Len(zs) :
      \E i \in 1..Len(Coords(r)) :
        _quickDistMeters(Coords(r)[i].lat, Coords(r)[i].lng, zs[j].lat, zs[j].lng)
          < zs[j].radius + 250 }

\* C1: last-request-wins.  When the invocations for two pairs have both
\* finished and the later-invoked one ended in Done, the stored candidates,
\* the raw routes and the drawn lines are all routes of the later pair.
C1_LastRequestWins ==
  \A a, b \in Pairs :
    ( /\ a # b
      /\ Finished(fetch[a]) /\ fetch[b].state = "Done"
      /\ fetch[b].seq > fetch[a].seq )
    => /\ \A k \in 1..Len(currentRoutes) : PairOf(currentRoutes[k].coords) = b
       /\ \A k \in 1..Len(rawOsrmRoutes) : PairOf(rawOsrmRoutes[k]) = b
       /\ \A k \in 1..Len(routeLines) : PairOf(routeLines[k].coords) = b

\* C2: every pass-1 failure (no route was obtained) ends in Failed with the
\* error card and its Retry button, after exactly one provider request, and
\* with no request pending.
C2_Pass1FailureOffersRetry ==
  \A p \in Pairs :
    (fetch[p].state = "Failed" /\ fetch[p].directRoutes = <<>>)
    => /\ fetch[p].shown = "error"
       /\ fetch[p].requests = 1
       /\ fetch[p].phase = "none"

\* C3: pass-1 failure is the only fatal path: an invocation whose pass 1
\* returned at least one route never ends in Failed.
C3_OnlyPass1IsFatal ==
  \A p \in Pairs : fetch[p].directRoutes # <<>> => fetch[p].state # "Failed"

\* C4: a step in which a refinement request fails or returns no route ends
\* the invocation in Done, issues no request, and leaves the best route and
\* the safe-route pool as they were.
C4_RefinementFailureKeepsBest ==
  [][ \A p \in Pairs :
        ( /\ fetch[p].state = "Refining"
          /\ fetch[p].resp = "none"
          /\ fetch'[p].resp \in {"error", "empty"} )
        => /\ fetch'[p].state = "Done"
           /\ fetch'[p].phase = "none"
           /\ fetch'[p].requests = fetch[p].requests
           /\ fetch'[p].bestRoute = fetch[p].bestRoute
           /\ fetch'[p].safeRoutes = fetch[p].safeRoutes ]_vars

C4_Witness ==
  \E p \in Pairs :
    /\ fetch[p].state = "Done"
    /\ fetch[p].resp \in {"error", "empty"}
    /\ fetch[p].requests >= 3
    /\ Len(fetch[p].safeRoutes) > 0

\* C5: one invocation issues at most MAX_ITER refinement requests, so at
\* most four provider requests in all.
C5_AtMostFourRequests ==
  \A p \in Pairs : fetch[p].requests <= 4 /\ fetch[p].requests - 1 <= MAX_ITER

C5_Witness ==
  \E p \in Pairs : fetch[p].state = "Done" /\ fetch[p].requests = 4

\* C6: every invocation eventually reaches Done or Failed.
C6_EventuallyEnds ==
  \A p \in Pairs : InFlight(fetch[p]) ~> Finished(fetch[p])

\* C7: detour convergence.  With a single zone on the pass-1 route and every
\* refinement answer clear of the zones, the invocation ends with at most 3
\* iterations and a best route without intersection hits.
C7_DetourConverges ==
  \A p \in Pairs :
    ( /\ Finished(fetch[p])
      /\ fetch[p].directRoutes # <<>>
      /\ fetch[p].resp = "ok"
      /\ Cardinality(ZonesOnRoute(fetch[p].directRoutes[1], fetch[p].dangerZones)) = 1
      /\ \A k \in 1..Len(fetch[p].safeRoutes) :
           Len(findDangerIntersections(Coords(fetch[p].safeRoutes[k]), fetch[p].dangerZones)) = 0 )
    => /\ fetch[p].iter <= 3
       /\ Len(findDangerIntersections(Coords(fetch[p].bestRoute), fetch[p].dangerZones)) = 0

C9_SafestFirst ==
  /\ \A i \in 1..Len(currentRoutes) : \A j \in 1..Len(currentRoutes) :
       i < j => currentRoutes[i].safetyScore >= currentRoutes[j].safetyScore
  /\ \A i \in 1..Len(currentRoutes) :
       /\ (currentRoutes[i].badge = "Safest") = (i = 1)
       /\ currentRoutes[i].recommended = (i = 1)

C9_Witness ==
  /\ Len(currentRoutes) >= 2
  /\ currentRoutes[1].idx # 0
  /\ currentRoutes[1].safetyScore > currentRoutes[Len(currentRoutes)].safetyScore

\* C10: when the first candidate attains the minimum duration no candidate
\* is labelled Fastest; otherwise exactly one candidate after the first is,
\* and it has the minimum duration.  Every other candidate after the first
\* is Alternative when its score is at least 55 and Avoid otherwise.
C10_FastestAndRest ==
  LET n == Len(currentRoutes)
      minDur == SeqMin([k \in 1..n |-> currentRoutes[k].durationSec])
      fast == {i \in 1..n : currentRoutes[i].badge = "Fastest"}
  IN n > 0 =>
       /\ 1 \notin fast
       /\ Cardinality(fast) <= 1
       /\ \A i \in fast : currentRoutes[i].durationSec = minDur
       /\ (fast = {}) = (currentRoutes[1].durationSec = minDur)
       /\ \A i \in 2..n :
            i \notin fast =>
              currentRoutes[i].badge =
                (IF currentRoutes[i].safetyScore >= 55 THEN "Alternative" ELSE "Avoid")

C10_Witness ==
  /\ Len(currentRoutes) = 4
  /\ \E i, j, k \in 2..4 :
       /\ currentRoutes[i].badge = "Fastest"
       /\ currentRoutes[j].badge = "Alternative"
       /\ currentRoutes[k].badge = "Avoid"
       /\ currentRoutes[j].durationSec = currentRoutes[i].durationSec

\* C11: while the routing panel is closed the candidate set, the raw route
\* list and the drawn route lines are empty (the panel is opened only by the
\* start of a fetch), also when a fetch in flight at close time ends later.
C11_ClosedPanelStaysEmpty ==
  ~ panelActive => currentRoutes = <<>> /\ rawOsrmRoutes = <<>> /\ routeLines = <<>>

\* the zones of zs centred in both boxes
ZonesInBoth(zs, b1, b2) ==
  { zs[i] : i \in { j \in 1..Len(zs) : BoundsContains(b1, zs[j]) /\ BoundsContains(b2, zs[j]) } }

\* C12: the danger zone model is not modified between the start of a fetch
\* and its end, so at the step that ends an invocation in Done the zones the
\* detector has used (collected after pass 1) and the zones the scorer gets
\* for a candidate agree on the area both cover.
C12_DetectorAndScorerAgree ==
  [][ \A p \in Pairs :
        (fetch[p].state # "Done" /\ fetch'[p].state = "Done")
        => \A k \in 1..Len(rawOsrmRoutes') :
           \A cb \in { RouteBounds(Coords(fetch'[p].directRoutes[1]), 180) } :
           \A sb \in { RouteBounds(Coords(rawOsrmRoutes'[k]), 50) } :
           \A zs \in { getDangerZones(crimeMarkers', sb) } :
             ZonesInBoth(fetch'[p].dangerZones, cb, sb) = ZonesInBoth(zs, cb, sb) ]_vars

\* C13: scoreRouteSafety returns exactly 85 for an empty polyline and an
\* integer between 15 and 98 for every other polyline.
C13_ScoreInRange ==
  probe.op = "score" =>
    IF LineCoords(probe.line) = <<>>
    THEN probe.result = 85
    ELSE probe.result \in 15..98

\* a polyline so deep in the zones that the lower clamp acts
C13_Witness ==
  /\ probe.op = "score"
  /\ LineCoords(probe.line) # <<>>
  /\ probe.result = 15
  /\ DangerScore(LineZonesOf[probe.line, probe.markers], LineCoords(probe.line)) > 750000

\* zones that may be added to the zone set of a scoring call
ExtraZones ==
  { Zone(422800, -837440, 100, 3), Zone(422722, -837302, 100, 3),
    Zone(422810, -837445, 160, 5), Zone(423040, -837445, 40, 1) }

\* C14: scorer monotonicity.  Scoring a polyline against its zone set with
\* one more zone added never gives a higher score than scoring it without.
C14_ScorerMonotone ==
  (probe.op = "score" /\ LineCoords(probe.line) # <<>>) =>
    \A zs \in { LineZonesOf[probe.line, probe.markers] } :
      \A z \in ExtraZones :
        SafetyFromDanger(DangerScore(Append(zs, z), LineCoords(probe.line))) <= probe.result

\* a call whose score one of the added zones lowers
C14_Witness ==
  /\ probe.op = "score"
  /\ LineCoords(probe.line) # <<>>
  /\ \E z \in ExtraZones :
       SafetyFromDanger(DangerScore(Append(LineZonesOf[probe.line, probe.markers], z),
                                    LineCoords(probe.line))) < probe.result

\* point z lies on the segment from p to q
OnSegment(p, q, z) ==
  /\ (q.lat - p.lat) * (z.lng - p.lng) = (q.lng - p.lng) * (z.lat - p.lat)
  /\ Min2(p.lat, q.lat) <= z.lat /\ z.lat <= Max2(p.lat, q.lat)
  /\ Min2(p.lng, q.lng) <= z.lng /\ z.lng <= Max2(p.lng, q.lng)

\* the polyline is one straight line and passes through the point z
StraightThrough(coords, z) ==
  /\ Len(coords) >= 2
  /\ \A i \in 1..Len(coords) : OnSegment(coords[1], coords[Len(coords)], coords[i])
  /\ OnSegment(coords[1], coords[Len(coords)], z)

\* C15: a straight-line route through the centre of a zone yields at least
\* one hit for that zone, whatever the number and spacing of its points; a
\* route whose every point is farther than radius + 250 m from every zone
\* yields no hit.
C15_DetectsZoneOnLine ==
  probe.op = "detect" =>
    \A coords \in { LineCoords(probe.line) } :
      /\ \A j \in 1..Len(probe.zones) :
           StraightThrough(coords, probe.zones[j])
           => \E h \in 1..Len(probe.result) :
                /\ probe.result[h].dzLat = probe.zones[j].lat
                /\ probe.result[h].dzLng = probe.zones[j].lng
      /\ (\A i \in 1..Len(coords) : \A j \in 1..Len(probe.zones) :
            _quickDistMeters(coords[i].lat, coords[i].lng,
                             probe.zones[j].lat, probe.zones[j].lng)
              > probe.zones[j].radius + 250)
         => Len(probe.result) = 0

\* C16 as stated: a getDangerZones call for the bounds of the call before it
\* returns the zones that call returned.
C16_SameBoundsSameZones ==
  (probe.op = "zones" /\ probe.prev # << >>) => probe.result = probe.prev[1].result

\* the zones of a getDangerZones result that come from the hotspots
SimulatedPart(zs, markers, b) ==
  SubSeq(zs, Len(SelectSeq(markers, LAMBDA m : BoundsContains(b, m))) + 1, Len(zs))

\* C16 amended: a getDangerZones call for the bounds of the call before it
\* returns the zones that call returned when the crime markers on the map
\* are those of that call, and returns the same simulated zones in any case;
\* no step changes or removes a cached cell.
C16_SameBoundsSameMarkersSameZones ==
  [][ /\ \A k \in DOMAIN hotspotCache :
           k \in DOMAIN hotspotCache' /\ hotspotCache'[k] = hotspotCache[k]
      /\ (probe'.op = "zones" /\ probe'.prev # << >>) =>
           \A zs \in { probe'.result } : \A ps \in { probe'.prev[1].result } :
             /\ probe'.prev[1].markers = probe'.markers => zs = ps
             /\ SimulatedPart(zs, probe'.markers, probe'.bounds)
                  = SimulatedPart(ps, probe'.prev[1].markers, probe'.bounds) ]_vars

\* two consecutive calls for bounds that hold simulated zones, the second
\* answered from the cache
C16_Witness ==
  /\ probe.op = "zones"
  /\ probe.prev # << >>
  /\ probe.prev[1].markers = probe.markers
  /\ Len(probe.result) >= 2
  /\ \E i \in 1..Len(probe.result) : probe.result[i].radius # 100

\* C17: every danger-zone query made after a community report was filed at
\* a point inside the query's bounds returns a zone at that point.
C17_ReportBecomesZone ==
  probe.op = "zones" =>
    \A i \in 1..Len(probe.reports) :
      BoundsContains(probe.bounds, probe.reports[i])
      => \E j \in 1..Len(probe.result) :
           /\ probe.result[j].lat = probe.reports[i].lat
           /\ probe.result[j].lng = probe.reports[i].lng

\* C18: the distance from a to b is the distance from b to a.
C18_DistanceSymmetric ==
  probe.op = "dist" =>
    probe.result = _quickDistMeters(probe.b.lat, probe.b.lng, probe.a.lat, probe.a.lng)

\* C19: a response whose first route has no hits ends the invocation with
\* no further provider request, a refinement request is issued only for a
\* best route with hits, and a pass-1 response without hits ends the fetch
\* after its one request with the deduplicated, capped pass-1 routes as the
\* candidates.
C19_ZeroHitsStop ==
  [][ \A p \in Pairs :
        \A f \in { fetch[p] } : \A g \in { fetch'[p] } :
          (InFlight(f) /\ g.seq = f.seq) =>
            \A hits \in { IF g.bestRoute = "none" THEN <<>>
                           ELSE HitsOf[g.bestRoute, g.dangerZones] } :
              /\ g.requests > f.requests => Len(hits) > 0
              /\ (f.phase = "body" /\ g.resp = "ok" /\ Len(hits) = 0) =>
                    /\ g.state = "Done"
                    /\ g.requests = f.requests
              /\ (f.phase = "body" /\ g.resp = "ok" /\ Len(hits) = 0
                     /\ f.state = "DirectFetchInFlight") =>
                    /\ g.requests = 1
                    /\ rawOsrmRoutes' = Take(DedupRoutes(g.directRoutes), 4)
                    /\ Len(currentRoutes') = Len(rawOsrmRoutes')
                    /\ { currentRoutes'[k].coords : k \in 1..Len(currentRoutes') }
                         = { rawOsrmRoutes'[k] : k \in 1..Len(rawOsrmRoutes') } ]_vars

\* a fetch that ended after its pass-1 request because the pass-1 route had
\* no hits, with a pass-1 alternative removed by the deduplication
C19_Witness ==
  \E p \in Pairs :
    /\ fetch[p].state = "Done"
    /\ fetch[p].resp = "ok"
    /\ fetch[p].requests = 1
    /\ Len(fetch[p].directRoutes) = 2
    /\ Len(HitsOf[fetch[p].bestRoute, fetch[p].dangerZones]) = 0
    /\ rawOsrmRoutes = <<fetch[p].directRoutes[1]>>
    /\ Len(currentRoutes) = 1

\* C20: an invocation has at most one provider request in flight, and it
\* issues a request only when every request it issued before has been
\* answered.
C20_OneRequestInFlight ==
  [][ \A p \in Pairs :
        \A f \in { fetch[p] } : \A g \in { fetch'[p] } :
          /\ g.requests - g.answered \in {0, 1}
          /\ (g.requests - g.answered = 1) <=> (g.phase # "none")
          /\ (g.seq = f.seq /\ g.requests > f.requests) =>
                /\ g.requests = f.requests + 1
                /\ g.answered = f.requests ]_vars

\* the request of the second iteration in flight, the two before it answered
C20_Witness ==
  \E p \in Pairs :
    /\ fetch[p].requests = 3
    /\ fetch[p].answered = 2
    /\ fetch[p].phase = "headers"
    /\ fetch[p].iter = 1

\* the sequence s begins with the sequence t
IsPrefix(t, s) == Len(t) <= Len(s) /\ SubSeq(s, 1, Len(t)) = t

\* C21: a successful refinement response appends its alternatives, in
\* order, to the safe-route pool and makes its first alternative the best
\* route; the request of the next iteration is built from the hits on that
\* route; within an invocation the pool only grows at its end.
C21_BestIsFirstPoolGrows ==
  [][ \A p \in Pairs :
        \A f \in { fetch[p] } : \A g \in { fetch'[p] } :
          g.seq = f.seq =>
            /\ IsPrefix(f.safeRoutes, g.safeRoutes)
            /\ (f.state = "Refining" /\ g.answered > f.answered
                  /\ g.resp \notin {"error", "empty"}) =>
                  /\ \E routes \in RefineResponses(p) :
                        /\ g.safeRoutes = f.safeRoutes \o routes
                        /\ g.bestRoute = routes[1]
                  /\ g.requests > f.requests =>
                        /\ Len(HitsOf[g.bestRoute, g.dangerZones]) > 0
                        /\ g.iterWPs = SortWPs(Origin(p),
                                          MergeWPs(f.iterWPs, DetourOf[g.bestRoute, g.dangerZones]))
            /\ (f.state = "Refining"
                  /\ (g.answered = f.answered \/ g.resp \in {"error", "empty"})) =>
                  /\ g.safeRoutes = f.safeRoutes
                  /\ g.bestRoute = f.bestRoute ]_vars

\* two successful refinement responses: three routes in the pool, the best
\* route the first alternative of the second response
C21_Witness ==
  \E p \in Pairs :
    /\ fetch[p].iter = 2
    /\ Len(fetch[p].safeRoutes) = 3
    /\ fetch[p].bestRoute = fetch[p].safeRoutes[2]
    /\ fetch[p].bestRoute # fetch[p].safeRoutes[1]

\* C22: the zones of an invocation are collected once, from the markers on
\* the map when pass 1 answers, and stay as collected through every later
\* step, feed reloads included; each iteration's detector reads them: the
\* loop goes on iff the best route has hits on them.
C22_ZonesCollectedOnce ==
  [][ \A p \in Pairs :
        \A f \in { fetch[p] } : \A g \in { fetch'[p] } :
          g.seq = f.seq =>
            /\ f.directRoutes # <<>> => g.dangerZones = f.dangerZones
            /\ (f.directRoutes = <<>> /\ g.directRoutes # <<>>) =>
                  g.dangerZones = CollectDangerZones(crimeMarkers, Coords(g.directRoutes[1]))
            /\ (g.answered > f.answered /\ g.bestRoute # "none"
                  /\ g.resp \notin {"error", "empty"}) =>
                  \A hits \in { HitsOf[g.bestRoute, g.dangerZones] } :
                    /\ g.requests > f.requests =>
                          /\ Len(hits) > 0
                          /\ g.iterWPs = SortWPs(Origin(p),
                                MergeWPs(f.iterWPs, DetourOf[g.bestRoute, g.dangerZones]))
                    /\ (g.state = "Done" /\ g.iter < MAX_ITER) => Len(hits) = 0 ]_vars

\* a refinement request issued after a refinement response while the map
\* holds other markers than those the zones were collected from
C22_Witness ==
  \E p \in Pairs :
    /\ fetch[p].state = "Refining"
    /\ fetch[p].iter >= 1
    /\ fetch[p].directRoutes # <<>>
    /\ fetch[p].dangerZones
         # CollectDangerZones(crimeMarkers, Coords(fetch[p].directRoutes[1]))

\* the waypoints of a list, as a set
WPSet(wps) == { wps[k] : k \in 1..Len(wps) }

\* C23: after a merge any two waypoints of the accumulated list are at
\* least 120 m apart; the merge keeps the waypoints it had, adds only
\* waypoints of the new detour, and leaves a new waypoint out only when the
\* list holds one within 120 m of it.
C23_WaypointsApart ==
  [][ \A p \in Pairs :
        \A f \in { fetch[p] } : \A g \in { fetch'[p] } :
          (g.seq = f.seq /\ g.requests > f.requests) =>
            \A newWPs \in { DetourOf[g.bestRoute, g.dangerZones] } :
              /\ \A k, l \in 1..Len(g.iterWPs) :
                    k # l => _quickDistMeters(g.iterWPs[k].lat, g.iterWPs[k].lng,
                                              g.iterWPs[l].lat, g.iterWPs[l].lng) >= 120
              /\ WPSet(f.iterWPs) \subseteq WPSet(g.iterWPs)
              /\ WPSet(g.iterWPs) \subseteq WPSet(f.iterWPs) \cup WPSet(newWPs)
              /\ \A k \in 1..Len(newWPs) :
                    \/ newWPs[k] \in WPSet(g.iterWPs)
                    \/ \E l \in 1..Len(g.iterWPs) :
                         _quickDistMeters(g.iterWPs[l].lat, g.iterWPs[l].lng,
                                          newWPs[k].lat, newWPs[k].lng) < 120 ]_vars

\* merges that left new waypoints out.  Pair A: the detour of A5 came twice,
\* the second time every waypoint was within 120 m of one from the iteration
\* before.  Pair B: the exit waypoint of B4's detour lies on its entry
\* waypoint, added earlier in the same merge.
C23_Witness ==
  /\ fetch["B"].state = "Refining"
  /\ fetch["B"].bestRoute = "B4"
  /\ \E newWPs \in { DetourOf["B4", fetch["B"].dangerZones] } :
       /\ Len(newWPs) = 3
       /\ newWPs[1] \in WPSet(fetch["B"].iterWPs)
       /\ newWPs[3].lat = newWPs[1].lat /\ newWPs[3].lng = newWPs[1].lng
       /\ Len(fetch["B"].iterWPs)
            = Len(DetourOf[fetch["B"].directRoutes[1], fetch["B"].dangerZones]) + 2
  /\ fetch["A"].state = "Refining"
  /\ fetch["A"].safeRoutes = <<"A5", "A5">>
  /\ Len(fetch["A"].iterWPs)
       < Len(DetourOf[fetch["A"].directRoutes[1], fetch["A"].dangerZones])
         + 2 * Len(DetourOf["A5", fetch["A"].dangerZones])

\* distance of waypoint wp from pair A's origin, as the sort measures it
FromOrigin(wp) == _quickDistMeters(Origin("A").lat, Origin("A").lng, wp.lat, wp.lng)

\* C24: a refinement request carries between 1 and 12 via-points in
\* non-decreasing distance from the origin, and they are the nearest of the
\* accumulated waypoints: all of them when there are at most 12, and 12
\* that no left-out waypoint is nearer than, when there are more.
C24_ViaPointsSortedCapped ==
  probe.op = "iteration" =>
    \A via \in { probe.via } : \A acc \in { probe.iterWPs } :
      /\ Len(via) >= 1 /\ Len(via) <= 12
      /\ Len(via) = Min2(12, Len(acc))
      /\ \A k \in 1..(Len(via) - 1) : FromOrigin(via[k]) <= FromOrigin(via[k + 1])
      /\ WPSet(via) \subseteq WPSet(acc)
      /\ \A w \in WPSet(acc) \ WPSet(via) :
            \A k \in 1..Len(via) : FromOrigin(via[k]) <= FromOrigin(w)

\* more than 12 waypoints accumulated, 12 of them in the request
C24_Witness ==
  /\ probe.op = "iteration"
  /\ Len(probe.iterWPs) > 12
  /\ Len(probe.via) = 12
  /\ \E w \in WPSet(probe.iterWPs) \ WPSet(probe.via) :
       FromOrigin(w) > FromOrigin(probe.via[12])

\* C25: the URL of a request with n >= 1 via-points lists n + 2
\* coordinates, the origin, the via-points in order and the destination,
\* and n + 2 snap radii, unlimited, 1000 for each via-point, unlimited; the
\* URL of a request without via-points has no radiuses parameter.
C25_UrlCoordsAndRadii ==
  probe.op \in {"url", "iteration"} =>
    \A p \in { IF probe.op = "url" THEN probe.pair ELSE "A" } :
    \A via \in { probe.via } : \A url \in { probe.url } : \A n \in { Len(probe.via) } :
      /\ Len(url.coords) = n + 2
      /\ url.coords[1] = Origin(p)
      /\ url.coords[n + 2] = Destination(p)
      /\ \A k \in 1..n : /\ url.coords[k + 1].lat = via[k].lat
                          /\ url.coords[k + 1].lng = via[k].lng
      /\ IF n = 0 THEN url.radiuses = <<>>
         ELSE /\ Len(url.radiuses) = n + 2
              /\ url.radiuses[1] = "unlimited"
              /\ url.radiuses[n + 2] = "unlimited"
              /\ \A k \in 2..(n + 1) : url.radiuses[k] = "1000"

\* the URL of a refinement request with 12 via-points
C25_Witness ==
  /\ probe.op = "iteration"
  /\ Len(probe.via) = 12
  /\ Len(probe.url.coords) = 14
  /\ Len(probe.url.radiuses) = 14

\* the indices of the routes of m that no earlier route of m shares a
\* bucket with
FirstOfBucket(m) ==
  { i \in 1..Len(m) : \A j \in 1..(i - 1) : DistKey(m[j]) # DistKey(m[i]) }

\* C26: when a fetch ends with candidates, the stored routes are the first
\* at most 4 of the merged sequence, safe pool then pass-1 alternatives, that
\* are the first of their bucket, in the order of that sequence: between 1
\* and 4 routes with pairwise distinct buckets, which the candidate list
\* holds one each.
C26_FinalCandidates ==
  [][ \A p \in Pairs :
        \A f \in { fetch[p] } : \A g \in { fetch'[p] } :
          (InFlight(f) /\ g.state = "Done") =>
            \A m \in { g.safeRoutes \o g.directRoutes } :
            \A kept \in { FirstOfBucket(m) } :
            \A raw \in { rawOsrmRoutes' } :
              /\ Len(raw) = Min2(4, Cardinality(kept))
              /\ Len(raw) >= 1 /\ Len(raw) <= 4
              /\ \A k \in 1..Len(raw) :
                    \E i \in kept : /\ Cardinality({ j \in kept : j <= i }) = k
                                    /\ raw[k] = m[i]
              /\ \A k, l \in 1..Len(raw) : k # l => DistKey(raw[k]) # DistKey(raw[l])
              /\ Len(currentRoutes') = Len(raw)
              /\ \A k \in 1..Len(raw) :
                    \E c \in 1..Len(currentRoutes') :
                      /\ currentRoutes'[c].idx = k - 1
                      /\ currentRoutes'[c].coords = raw[k] ]_vars

\* a final list cut to 4: the merged sequence held five buckets, and a
\* route was dropped for its bucket besides
C26_Witness ==
  \E p \in Pairs :
    /\ fetch[p].state = "Done"
    /\ Len(rawOsrmRoutes) = 4
    /\ rawOsrmRoutes = Take(DedupRoutes(fetch[p].safeRoutes \o fetch[p].directRoutes), 4)
    /\ Cardinality(FirstOfBucket(fetch[p].safeRoutes \o fetch[p].directRoutes)) = 5
    /\ Len(fetch[p].safeRoutes \o fetch[p].directRoutes) > 5

\* the zones of the bounds with the incident count each zone stands for:
\* the recentCount of a simulated hotspot, 1 for a crime marker
ZonesWithCount(markers, b) ==
  LET real == SelectSeq(markers, LAMBDA m : BoundsContains(b, m))
      hs   == getHotspotsForBounds(b)
  IN [i \in 1..Len(real) |->
        [lat |-> real[i].lat, lng |-> real[i].lng, radius |-> 100, severity |-> 3,
         recentCount |-> 1]]
     \o [i \in 1..Len(hs) |->
          [lat |-> hs[i].lat, lng |-> hs[i].lng, radius |-> hs[i].radius,
           severity |-> hs[i].severity, recentCount |-> hs[i].recentCount]]

\* C27: the danger a scoring call adds up counts every zone with its
\* recent incident count: a zone of count k adds k times what it would add
\* with count 1.
C27_DangerProportionalToCount ==
  (probe.op = "score" /\ LineCoords(probe.line) # <<>>) =>
    \A coords \in { LineCoords(probe.line) } :
      DangerScore(LineZonesOf[probe.line, probe.markers], coords)
        = DangerScore(ZonesWithCount(probe.markers, RouteBounds(coords, 50)), coords)

\* zone z is closer to the point p than its radius + 250 m
InReach(p, z) == _quickDistMeters(p.lat, p.lng, z.lat, z.lng) < z.radius + 250

\* C28: the hits of findDangerIntersections have strictly increasing
\* indices, each a multiple of stride = max(1, floor(len / 250)); a sampled
\* point has a hit iff some zone is in reach of it, and its hit carries the
\* point and the first zone, in zone order, that is in reach.
C28_OneHitPerSample ==
  probe.op = "detect" =>
    \A coords \in { LineCoords(probe.line) } : \A zones \in { probe.zones } :
    \A hits \in { probe.result } : \A stride \in { Max2(1, Len(coords) \div 250) } :
      /\ \A h \in 1..Len(hits) :
            /\ hits[h].idx \in 0..(Len(coords) - 1)
            /\ hits[h].idx % stride = 0
            /\ h > 1 => hits[h - 1].idx < hits[h].idx
            /\ hits[h].lat = coords[hits[h].idx + 1].lat
            /\ hits[h].lng = coords[hits[h].idx + 1].lng
            /\ \E j \in 1..Len(zones) :
                  /\ InReach(coords[hits[h].idx + 1], zones[j])
                  /\ \A k \in 1..(j - 1) : ~ InReach(coords[hits[h].idx + 1], zones[k])
                  /\ hits[h].dzLat = zones[j].lat
                  /\ hits[h].dzLng = zones[j].lng
                  /\ hits[h].severity = zones[j].severity
      /\ \A i \in 0..(Len(coords) - 1) :
            i % stride = 0 =>
              ((\E h \in 1..Len(hits) : hits[h].idx = i)
                 <=> (\E j \in 1..Len(zones) : InReach(coords[i + 1], zones[j])))

\* a polyline sampled at every second point: hits at two sampled points, a
\* point in reach of a zone that is not sampled, and a hit at a point in
\* reach of two zones
C28_Witness ==
  /\ probe.op = "detect"
  /\ Len(LineCoords(probe.line)) \div 250 = 2
  /\ Len(probe.result) = 2
  /\ \E i \in 1..Len(LineCoords(probe.line)) :
       /\ (i - 1) % 2 = 1
       /\ \E j \in 1..Len(probe.zones) : InReach(LineCoords(probe.line)[i], probe.zones[j])
  /\ \E j, k \in 1..Len(probe.zones) :
       /\ j # k
       /\ InReach(Pt(probe.result[1].lat, probe.result[1].lng), probe.zones[j])
       /\ InReach(Pt(probe.result[1].lat, probe.result[1].lng), probe.zones[k])

\* the cluster (its position in clusters) that holds the h-th hit when the
\* clusters are read one after the other
ClusterOfHit(clusters, h) ==
  CHOOSE c \in 1..Len(clusters) :
    /\ SeqSum([k \in 1..(c - 1) |-> Len(clusters[k])]) < h
    /\ h <= SeqSum([k \in 1..c |-> Len(clusters[k])])

\* C29: the clusters, read one after the other, are the hit sequence (every
\* hit in exactly one cluster, in route order); no cluster is empty; two
\* consecutive hits are in the same cluster iff their index gap is below 20.
C29_ClustersAreRuns ==
  (probe.op = "build" /\ Len(probe.hits) > 0) =>
    \A hits \in { probe.hits } : \A clusters \in { probe.clusters } :
      /\ FlattenSeq(clusters) = hits
      /\ \A c \in 1..Len(clusters) : Len(clusters[c]) > 0
      /\ \A h \in 1..(Len(hits) - 1) :
            (ClusterOfHit(clusters, h) = ClusterOfHit(clusters, h + 1))
              <=> (hits[h + 1].idx - hits[h].idx < 20)

\* hits with an index gap of 19 inside a cluster and a gap of 20 between two
\* clusters
C29_Witness ==
  /\ probe.op = "build"
  /\ Len(probe.clusters) = 2
  /\ \E h \in 1..(Len(probe.hits) - 1) : probe.hits[h + 1].idx - probe.hits[h].idx = 19
  /\ \E h \in 1..(Len(probe.hits) - 1) : probe.hits[h + 1].idx - probe.hits[h].idx = 20

\* C30: buildDetourWaypoints returns min(9, 3 x number of clusters)
\* waypoints in non-decreasing order of their source index, and an empty
\* list iff there are no hits.
C30_DetourCountAndOrder ==
  probe.op = "build" =>
    /\ ~ probe.threw
    /\ Len(probe.result) = Min2(9, 3 * Len(probe.clusters))
    /\ \A k \in 1..(Len(probe.result) - 1) :
          probe.result[k]._order <= probe.result[k + 1]._order
    /\ (probe.result = <<>>) <=> (probe.hits = <<>>)

\* how many times w occurs in the sequence s
Occurrences(s, w) == Cardinality({k \in 1..Len(s) : s[k] = w})

\* C31: with more than 3 clusters the 9 waypoints returned are the entry,
\* bypass and exit waypoints of the first three clusters, each triple whole.
C31_FirstThreeTriplesKept ==
  (probe.op = "build" /\ ~ probe.threw /\ Len(probe.clusters) > 3) =>
    \A kept \in { probe.triples[1] \o probe.triples[2] \o probe.triples[3] } :
      /\ Len(probe.result) = 9
      /\ \A k \in 1..9 :
            Occurrences(probe.result, kept[k]) = Occurrences(kept, kept[k])

\* C32: for every cluster the entry, bypass and exit source indices are
\* indices of the polyline, entryIdx <= bypassIdx <= exitIdx, entryIdx is
\* not after the cluster's first hit and exitIdx not before its last hit.
C32_IndicesClampedAroundCluster ==
  probe.op = "build" =>
    \A totalPts \in { Len(LineCoords(probe.line)) } :
    \A c \in 1..Len(probe.clusters) :
    \A cl \in { probe.clusters[c] } : \A ix \in { ClusterIdx(cl, totalPts) } :
      /\ {ix.entryIdx, ix.safeMiddle, ix.exitIdx} \subseteq 0..(totalPts - 1)
      /\ ix.entryIdx <= ix.safeMiddle
      /\ ix.safeMiddle <= ix.exitIdx
      /\ ix.entryIdx <= cl[1].idx
      /\ ix.exitIdx >= cl[Len(cl)].idx

\* the angle between two bearings, 0..180
AngDist(a, b) == Min2((a - b + 360) % 360, (b - a + 360) % 360)

\* C33: safeSideBearing returns roadBearing + 270 or roadBearing + 90
\* (mod 360), and the angle between the returned bearing and the bearing to
\* the zone centre is at least 90 degrees.
C33_SafeSideAwayFromZone ==
  probe.op = "side" =>
    /\ probe.result \in { (probe.roadBearing + 270) % 360, (probe.roadBearing + 90) % 360 }
    /\ AngDist(probe.result, probe.toBearing) >= 90

\* the zone one degree inside the right-hand half plane, across the wrap at
\* 360: the left perpendicular is returned
C33_Witness ==
  /\ probe.op = "side"
  /\ probe.roadBearing = 355
  /\ probe.toBearing = 174
  /\ probe.result = 265
  /\ AngDist(probe.result, probe.toBearing) = 91

\* C34: the entry, bypass and exit waypoints of a cluster are moved to the
\* same side of the road.
C34_TripleOnOneSide ==
  (probe.op = "build" /\ ~ probe.threw) =>
    \A c \in 1..Len(probe.sides) :
      /\ probe.sides[c][1] = probe.sides[c][2]
      /\ probe.sides[c][2] = probe.sides[c][3]

\* C35: a record with non-numeric coordinates gets no marker; every other
\* record of the batch is considered, in order: it gets a marker unless an
\* earlier record that got one is nearer than 80 m; so the markers are
\* pairwise at least 80 m apart.
C35_BadRecordSkippedOthersThinned ==
  probe.op = "feed" =>
    \A items \in { probe.sorted } : \A idx \in { probe.keptIdx } :
    \A keptSet \in { {idx[k] : k \in 1..Len(idx)} } :
      /\ \A k \in 1..Len(idx) :
            /\ idx[k] \in 1..Len(items)
            /\ k > 1 => idx[k - 1] < idx[k]
            /\ items[idx[k]].latitude.kind \in {"num", "prefixed"}
            /\ items[idx[k]].longitude.kind \in {"num", "prefixed"}
      /\ \A i \in keptSet, j \in keptSet :
            i # j => ~ TooClose(FeedPos(items[i]), FeedPos(items[j]), 80)
      /\ \A i \in 1..Len(items) :
            (/\ items[i].latitude.kind \in {"num", "prefixed"}
             /\ items[i].longitude.kind \in {"num", "prefixed"}
             /\ i \notin keptSet)
              => \E j \in keptSet : j < i /\ TooClose(FeedPos(items[j]), FeedPos(items[i]), 80)
      /\ crimeMarkers = [k \in 1..Len(idx) |-> FeedPos(items[idx[k]])]

\* a batch of three: a marker, then a record with non-numeric coordinates,
\* then a record that still gets its marker
C35_Witness ==
  /\ probe.op = "feed"
  /\ Len(probe.sorted) = 3
  /\ probe.keptIdx = <<1, 3>>
  /\ probe.sorted[2].latitude.kind = "text"

\* C36: when a fetch ends in Done after a successful refinement request,
\* a route of the bucket of the route the loop ended on (the first
\* alternative of the last successful refinement answer) is in the final
\* candidate list.
C36_LoopResultIsCandidate ==
  [][ \A p \in Pairs :
        \A f \in { fetch[p] } : \A g \in { fetch'[p] } :
          (InFlight(f) /\ g.state = "Done" /\ Len(g.safeRoutes) > 0) =>
            \E k \in 1..Len(rawOsrmRoutes') :
              DistKey(rawOsrmRoutes'[k]) = DistKey(g.bestRoute) ]_vars

\* C37: in every state the idx values of currentRoutes are a permutation of
\* 0..n-1, n the length of rawOsrmRoutes, and rawOsrmRoutes[c.idx] is the
\* provider route candidate c was made from.
C37_CandidatesMatchRawRoutes ==
  \A n \in { Len(rawOsrmRoutes) } :
    /\ Len(currentRoutes) = n
    /\ { currentRoutes[k].idx : k \in 1..n } = 0..(n - 1)
    /\ \A k \in 1..n :
          \A raw \in { rawOsrmRoutes[currentRoutes[k].idx + 1] } :
            /\ currentRoutes[k].coords = raw
            /\ currentRoutes[k].durationSec = Duration(raw)

\* three candidates or more that the sort has put in another order than
\* the raw routes, while the fetch of the other pair is in flight
C37_Witness ==
  \E p, q \in Pairs :
    /\ p # q
    /\ fetch[p].state = "Done"
    /\ InFlight(fetch[q])
    /\ Len(rawOsrmRoutes) >= 3
    /\ \E k \in 1..Len(currentRoutes) : currentRoutes[k].idx # k - 1

\* C38: a countdown runs only while the modal is open with the swipe
\* confirmed, and an alert is dispatched only then: after closeSOS nothing
\* counts down and nothing is sent before the modal is reopened and the
\* swipe confirmed again.
C38_ClosedModalSendsNothing ==
  [][ /\ sos'.intervals # {} => (sos'.modal /\ sos'.swipeConfirmed)
      /\ sos'.alerts > sos.alerts => (sos.modal /\ sos.swipeConfirmed) ]_vars

\* C39: at most one interval timer is active, countdownValue is within
\* 0..5, and no more alerts are dispatched than swipes were confirmed.
C39_OneCountdownOneAlert ==
  /\ Cardinality(sos.intervals) <= 1
  /\ sos.countdownValue \in 0..5
  /\ sos.alerts <= sos.swipes

====
